---- MODULE Spec2Model ----
(***************************************************************************)
(* Model of the oh-no-claudecode Stop hook                                 *)
(* (plugins/oh-no-claudecode/scripts/oh-no-claudecode.py).                 *)
(*                                                                         *)
(* One session is modelled: its two counter files (block_count,            *)
(* override_count) persist across the invocations of the hook, and each    *)
(* invocation fans the rules out to the judge, collects the answers in     *)
(* completion order and resolves them.                                     *)
(*                                                                         *)
(* Texts are sequences of one-character strings; an optional value         *)
(* (Python's None or a value) is the empty sequence or a one-element       *)
(* sequence.                                                               *)
(***************************************************************************)
EXTENDS Integers, Sequences, FiniteSets, TLC

VARIABLES
    block_count,       \* content of the session's .count file
    override_count,    \* content of the session's .overrides file
    pc,                \* position of the running invocation of main()
    rules,             \* load_rules(): the rule list of this invocation
    pending,           \* indices of the futures that have not completed yet
    results,           \* the results dict: rule index -> parsed answer
    stdout,            \* the JSON lines printed by this invocation
    system_messages,   \* the system_messages list of this invocation
    queries_issued,    \* number of query_opencode calls submitted
    start_blocks,      \* block_count when the invocation started
    start_overrides,   \* override_count when the invocation started
    steps,             \* the iterations of the block loop that ran a branch
    failed,            \* indices of the futures that delivered no result
    blocks_emitted,    \* block events printed so far in the session
    last_message,      \* len(last_message) of this invocation
    turn_content,      \* len(turn_content) of this invocation
    claudemd_content,  \* claudemd_content: None or len of the CLAUDE.md read
    response_text,     \* parse_response: its argument response
    parsed,            \* parse_response: None before the call, then its value
    opencode_bin,      \* find_opencode() finds the binary
    lock_file,         \* OPENCODE_LOCK_FILE exists
    refs_file,         \* OPENCODE_REFS_FILE: None (absent) or its record
    lock_holder,       \* the session whose process holds the flock, or NOBODY
    proc,              \* per session: the position of its lifecycle process
    alive,             \* pids of the spawned backends that are running
    listener,          \* who listens on the port: 0, a pid, or EXTERNAL
    next_pid,          \* the pid the next Popen gets
    terminating,       \* running backends that received SIGTERM
    calls,             \* acquire and release calls begun so far
    faults,            \* servers that went away on their own so far
    starts,            \* calls of start_opencode_server so far
    stops,             \* calls of stop_opencode_server so far
    kills,             \* SIGKILLs sent by stop_opencode_server so far
    ups,               \* saves that took the persisted count from 0 to 1
    downs,             \* saves that took the persisted count from 1 to 0
    acquired,          \* acquires that returned True so far
    released,          \* releases that returned so far
    holders,           \* per session: successful acquires not yet released
    over_releases,     \* releases by a session that held no reference
    start_failures,    \* calls of start_opencode_server that returned None
    acquire_failures,  \* calls of opencode_acquire that returned False
    cli_stdout,        \* events printed on stdout by the lifecycle calls
    exit_codes,        \* the statuses the lifecycle calls ended with
    evals,             \* per concurrent evaluation: its position, what it read
    evaluations,       \* concurrent evaluations begun so far
    overrides_granted, \* overrides granted so far in the session
    overlapped         \* an evaluation began while another one was running

hookVars == <<block_count, override_count, pc, rules, pending, results, stdout,
              system_messages, queries_issued, start_blocks, start_overrides,
              steps, failed, blocks_emitted, last_message, turn_content,
              claudemd_content>>

\* what main() reads of the transcript and of the project directory
inputVars == <<last_message, turn_content, claudemd_content>>

parserVars == <<response_text, parsed>>

\* the files of server_lifecycle.py
fileVars == <<lock_file, refs_file>>

\* the operating system: the spawned backends and the port
osVars == <<alive, listener, next_pid, terminating>>

\* what has been called and what it returned
callVars == <<starts, stops, kills, ups, downs, acquired, released, holders,
              over_releases, start_failures>>

\* what main() of server_lifecycle.py printed and returned
exitVars == <<acquire_failures, cli_stdout, exit_codes>>

countVars == <<callVars, exitVars>>

lifecycleVars == <<opencode_bin, fileVars, lock_holder, proc, osVars, calls,
                   faults, countVars>>

\* evaluations of one session that run at the same time
raceVars == <<evals, evaluations, overrides_granted, overlapped>>

\* everything of oh-no-claudecode.py
mainVars == <<hookVars, raceVars>>

\* the variables an evaluation that runs alone does not touch
nonHookVars == <<parserVars, lifecycleVars, raceVars>>

vars == <<hookVars, nonHookVars>>

(***************************************************************************)
(* Bounds of the model.                                                    *)
(***************************************************************************)
MaxRules == 2
MaxBlockRules == 3

(***************************************************************************)
(* Program constants.                                                      *)
(***************************************************************************)
MAX_BLOCKS_PER_SESSION == 10
MAX_OVERRIDES_PER_SESSION == 5
OverrideMarkerLen == 9
MIN_MESSAGE_LENGTH == 50
READINESS_POLLS == 30
LIVENESS_POLLS == 10
EXTERNAL == -1

(***************************************************************************)
(* Python's str operations, on sequences of characters.                    *)
(***************************************************************************)
None == << >>
Some(v) == << v >>

LowerToUpper ==
    [c \in {"a","b","c","d","e","f","g","h","i","j","k","l","m","n","o","p",
            "q","r","s","t","u","v","w","x","y","z"} |->
        CASE c = "a" -> "A" [] c = "b" -> "B" [] c = "c" -> "C"
          [] c = "d" -> "D" [] c = "e" -> "E" [] c = "f" -> "F"
          [] c = "g" -> "G" [] c = "h" -> "H" [] c = "i" -> "I"
          [] c = "j" -> "J" [] c = "k" -> "K" [] c = "l" -> "L"
          [] c = "m" -> "M" [] c = "n" -> "N" [] c = "o" -> "O"
          [] c = "p" -> "P" [] c = "q" -> "Q" [] c = "r" -> "R"
          [] c = "s" -> "S" [] c = "t" -> "T" [] c = "u" -> "U"
          [] c = "v" -> "V" [] c = "w" -> "W" [] c = "x" -> "X"
          [] c = "y" -> "Y" [] c = "z" -> "Z"]

Upper(s) ==
    [k \in 1..Len(s) |->
        IF s[k] \in DOMAIN LowerToUpper THEN LowerToUpper[s[k]] ELSE s[k]]

IsSpace(c) == c \in {" ", "\n", "\t", "\r"}

RECURSIVE LStrip(_)
LStrip(s) ==
    IF s # << >> /\ IsSpace(Head(s)) THEN LStrip(Tail(s)) ELSE s

RECURSIVE RStrip(_)
RStrip(s) ==
    IF s # << >> /\ IsSpace(s[Len(s)])
    THEN RStrip(SubSeq(s, 1, Len(s) - 1))
    ELSE s

Strip(s) == RStrip(LStrip(s))

StartsWith(s, prefix) ==
    /\ Len(s) >= Len(prefix)
    /\ SubSeq(s, 1, Len(prefix)) = prefix

Contains(s, sub) ==
    \E k \in 0..(Len(s) - Len(sub)) : SubSeq(s, k + 1, k + Len(sub)) = sub

\* str.split("\n"): always at least one piece
RECURSIVE SplitLines(_, _)
SplitLines(s, cur) ==
    IF s = << >> THEN << cur >>
    ELSE IF Head(s) = "\n" THEN << cur >> \o SplitLines(Tail(s), << >>)
    ELSE SplitLines(Tail(s), Append(cur, Head(s)))

Split(s) == SplitLines(s, << >>)

\* "\n".join(lines)
RECURSIVE Join(_)
Join(lines) ==
    IF lines = << >> THEN << >>
    ELSE IF Len(lines) = 1 THEN lines[1]
    ELSE lines[1] \o << "\n" >> \o Join(Tail(lines))

YES == << "Y", "E", "S" >>
NO == << "N", "O" >>
OVERRIDE_MARKER == << "O", "V", "E", "R", "R", "I", "D", "E", ":" >>

\* the loop with "if" in place of "elif": the OVERRIDE: line is kept in the
\* explanation
RECURSIVE ScanLines_keep_marker(_, _)
ScanLines_keep_marker(lines, acc) ==
    IF lines = << >> THEN acc
    ELSE LET stripped == Strip(Head(lines))
             reason == IF StartsWith(stripped, OVERRIDE_MARKER)
                       THEN Some(Strip(SubSeq(stripped, OverrideMarkerLen + 1,
                                              Len(stripped))))
                       ELSE acc.override_reason
         IN  ScanLines_keep_marker(Tail(lines),
                 [override_reason |-> reason,
                  explanation_lines |->
                      IF stripped # << >>
                      THEN Append(acc.explanation_lines, stripped)
                      ELSE acc.explanation_lines])

\* the loop over lines[1:] of parse_response
RECURSIVE ScanLines(_, _)
ScanLines(lines, acc) ==
    IF lines = << >> THEN acc
    ELSE LET stripped == Strip(Head(lines)) IN
         IF StartsWith(stripped, OVERRIDE_MARKER)
         THEN ScanLines(Tail(lines),
                  [acc EXCEPT !.override_reason =
                      Some(Strip(SubSeq(stripped, OverrideMarkerLen + 1,
                                        Len(stripped))))])
         ELSE IF stripped # << >>
         THEN ScanLines(Tail(lines),
                  [acc EXCEPT !.explanation_lines = Append(@, stripped)])
         ELSE ScanLines(Tail(lines), acc)

parse_response(response) ==
    LET lines == Split(response)
        first_line == Upper(Strip(lines[1]))
        verdict == IF Contains(first_line, YES) THEN "YES"
                   ELSE IF Contains(first_line, NO) THEN "NO"
                   ELSE ""
        scan == ScanLines(Tail(lines),
                          [override_reason |-> None,
                           explanation_lines |-> << >>])
    IN  [verdict |-> verdict,
         explanation |-> Join(scan.explanation_lines),
         override_reason |-> scan.override_reason]

(***************************************************************************)
(* The judge's answers used as inputs.                                     *)
(***************************************************************************)
TxtYes == << "Y", "E", "S", "\n", "\n", "b", "a", "d" >>
TxtNo == << "N", "O" >>
TxtOverride ==
    << "y", "e", "s", "\n", "O", "V", "E", "R", "R", "I", "D", "E", ":",
       " ", "o", "k" >>

\* an OVERRIDE: marker with nothing behind it
TxtEmptyOverride ==
    << "Y", "e", "s", ".", "\n", " ", "O", "V", "E", "R", "R", "I", "D", "E",
       ":" >>

JudgeTexts == {TxtYes, TxtNo, TxtOverride}

\* answers that are not YES and carry an OVERRIDE: line
TxtNoOverride ==
    << "n", "o", "\n", "O", "V", "E", "R", "R", "I", "D", "E", ":", " ", "o",
       "k" >>

TxtUnknownOverride ==
    << "m", "a", "y", "b", "e", "\n", "O", "V", "E", "R", "R", "I", "D", "E",
       ":", " ", "o", "k" >>

VerdictTexts == {TxtOverride, TxtNoOverride, TxtUnknownOverride}

OddTexts == {TxtEmptyOverride}

\* what a future can deliver when the judge answers with one of texts: an
\* exception, None, or stdout.strip()
QueryOutcomes(texts) ==
    {[raised |-> TRUE, value |-> None]} \cup
    {[raised |-> FALSE, value |-> v] :
        v \in {None, Some(<< >>)} \cup {Some(t) : t \in texts}}

\* the future raised, or query_opencode returned None or an empty string
NoResult(outcome) ==
    outcome.raised \/ outcome.value = None \/ outcome.value = Some(<< >>)

Actions == {"block", "notify", "suggest"}

\* the rule lists of length 0..n with actions among acts; the rule at position
\* i has criteria i (the rules of a configuration have distinct criteria)
ModeRuleLists(n, acts, modes) ==
    UNION {{[i \in 1..k |->
                [criteria |-> i, action |-> f[i][1], mode |-> f[i][2]]] :
               f \in [1..k -> acts \X modes]} : k \in 0..n}

\* configurations of turn-mode rules
RuleLists(n, acts) == ModeRuleLists(n, acts, {"turn"})

Modes == {"last", "turn", "claudemd"}

\* what an invocation finds: the length of the last assistant message (not
\* empty), the length of the turn's text, which is empty when a user entry
\* follows the last assistant message and holds that message otherwise, and
\* what find_claudemd() returns
Inputs ==
    {[last_message |-> l, turn_content |-> t, claudemd |-> c] :
        l \in {MIN_MESSAGE_LENGTH - 1, MIN_MESSAGE_LENGTH},
        t \in {0, MIN_MESSAGE_LENGTH},
        c \in {None, Some(MIN_MESSAGE_LENGTH)}}

\* a long message that is the whole turn, in a project without CLAUDE.md
TurnInputs ==
    {[last_message |-> MIN_MESSAGE_LENGTH,
      turn_content |-> MIN_MESSAGE_LENGTH,
      claudemd |-> None]}

is_brief_response(message) == message < MIN_MESSAGE_LENGTH

\* "if not claudemd_content": None or an empty file
NoClaudeMd(content) == content = None \/ content[1] = 0

\* the query-building loop without the brief-response test
QueriedRules_no_bypass(rl, input) ==
    {i \in 1..Len(rl) :
        LET mode == rl[i].mode IN
        IF mode = "claudemd"
        THEN /\ ~NoClaudeMd(input.claudemd)
             /\ (IF input.turn_content # 0 THEN input.turn_content
                  ELSE input.last_message) # 0
        ELSE IF mode \in {"turn", "all"}
        THEN input.turn_content # 0
        ELSE input.last_message # 0}

\* the indices of the rules the loop "for i, rule in enumerate(rules)" puts
\* into queries
QueriedRules(rl, input) ==
    {i \in 1..Len(rl) :
        LET mode == rl[i].mode IN
        IF mode = "claudemd"
        THEN /\ ~NoClaudeMd(input.claudemd)
             /\ (IF input.turn_content # 0 THEN input.turn_content
                  ELSE input.last_message) # 0
        ELSE IF mode \in {"turn", "all"}
        THEN input.turn_content # 0
        ELSE /\ ~is_brief_response(input.last_message)
             /\ input.last_message # 0}

\* claudemd_content after the loop: CLAUDE.md is read when the first
\* claudemd-mode rule is met
LoadedClaudeMd(rl, input) ==
    IF \E i \in 1..Len(rl) : rl[i].mode = "claudemd"
    THEN input.claudemd
    ELSE None

(***************************************************************************)
(* Output events and the parts of a system message.                        *)
(***************************************************************************)
Part(tag, rule, text, n) ==
    [tag |-> tag, criteria |-> rule.criteria, text |-> text, n |-> n]

NoRule == [criteria |-> 0, action |-> ""]

\* {"decision": "block", "reason": "[Rule: <criteria>]\n<explanation>"}
BlockEvent(rule, explanation) ==
    [kind |-> "block", criteria |-> rule.criteria, reason |-> explanation,
     parts |-> << >>]

\* {"systemMessage": "\n\n".join(parts)}
SystemMessage(parts) ==
    [kind |-> "systemMessage", criteria |-> 0, reason |-> << >>,
     parts |-> parts]

BlockEvents(out) ==
    Cardinality({k \in 1..Len(out) : out[k].kind = "block"})

SafetyValveMessage(current_blocks) ==
    SystemMessage(<< Part("safety_valve", NoRule, << >>, current_blocks) >>)

MonitoringDisabledMessage ==
    SystemMessage(<< Part("monitoring_disabled", NoRule, << >>, 0) >>)

(***************************************************************************)
(* Session counters.                                                       *)
(***************************************************************************)
\* the new count is returned but the write to the file is lost
increment_block_count_lost(count) == count

increment_block_count(count) == count + 1

\* the new count is returned but the write to the file is lost
increment_override_count_lost(count) == count

increment_override_count(count) == count + 1

\* the valve opens one block too late
SafetyValveEngaged_late(current_blocks) ==
    current_blocks > MAX_BLOCKS_PER_SESSION

SafetyValveEngaged(current_blocks) ==
    current_blocks >= MAX_BLOCKS_PER_SESSION

\* one override too many is granted
OverrideLimitReached_late(current_overrides) ==
    current_overrides > MAX_OVERRIDES_PER_SESSION

OverrideLimitReached(current_overrides) ==
    current_overrides >= MAX_OVERRIDES_PER_SESSION

\* any override_reason but None counts as an override
Truthy_not_none(opt) == opt # None

\* Python truth value of an optional text: None and "" are false
Truthy(opt) == opt # None /\ opt[1] # << >>

(***************************************************************************)
(* The results dict: a function from the rule indices collected to their   *)
(* entries.  The dict's iteration order is its insertion order, the order  *)
(* in which the futures completed; only the loops of the resolution read   *)
(* it, so it is drawn there (keys), among all orders of the keys.          *)
(***************************************************************************)
EmptyDict == [idx \in {} |-> 0]

Put(res, idx, entry) ==
    [k \in DOMAIN res \cup {idx} |-> IF k = idx THEN entry ELSE res[k]]

\* the possible values of list(results.keys())
InsertionOrders(res) ==
    {keys \in [1..Cardinality(DOMAIN res) -> DOMAIN res] :
        \A a, b \in DOMAIN keys : a # b => keys[a] # keys[b]}

\* the keys are used in the order in which the futures completed
SortedKeys_unsorted(keys) == keys

\* sorted(results.keys())
SortedKeys(keys) == SortSeq(keys, LAMBDA a, b : a < b)

\* "if response is not None" instead of "if response": an empty answer is
\* parsed and stored
CollectResult_not_none(res, idx, outcome) ==
    IF ~outcome.raised /\ outcome.value # << >>
    THEN LET p == parse_response(outcome.value[1]) IN
         [k \in DOMAIN res \cup {idx} |->
             IF k = idx
             THEN [verdict |-> p.verdict, explanation |-> p.explanation,
                   override_reason |-> p.override_reason]
             ELSE res[k]]
    ELSE res

\* the body of the as_completed loop for the future of rule idx
CollectResult(res, idx, outcome) ==
    IF ~outcome.raised /\ Truthy(outcome.value)
    THEN LET p == parse_response(outcome.value[1]) IN
         Put(res, idx, [verdict |-> p.verdict,
                        explanation |-> p.explanation,
                        override_reason |-> p.override_reason])
    ELSE res

\* the guard fires as soon as one query has failed
AllQueriesFailed_any(res, nqueries) ==
    Cardinality(DOMAIN res) < nqueries

AllQueriesFailed(res, nqueries) ==
    Cardinality(DOMAIN res) = 0 /\ nqueries > 0

(***************************************************************************)
(* Resolution.  st is the state main() works on: the two counter files,    *)
(* system_messages, what was printed, and whether sys.exit was called.     *)
(***************************************************************************)
Step(branch, idx, before, after) ==
    [branch |-> branch, idx |-> idx,
     blocks_before |-> before.block_count,
     blocks_after |-> after.block_count,
     overrides_before |-> before.override_count,
     overrides_after |-> after.override_count,
     messages |-> SubSeq(after.system_messages,
                         Len(before.system_messages) + 1,
                         Len(after.system_messages)),
     events |-> SubSeq(after.stdout, Len(before.stdout) + 1,
                       Len(after.stdout))]

\* the block decision is printed but sys.exit(0) is missing
EmitBlock_no_exit(st, rule, entry) ==
    [st EXCEPT !.block_count = @ + 1,
               !.stdout = Append(@, [kind |-> "block",
                                     criteria |-> rule.criteria,
                                     reason |-> entry.explanation,
                                     parts |-> << >>])]

\* increment_block_count, print the block decision, sys.exit(0)
EmitBlock(st, rule, entry) ==
    [st EXCEPT !.block_count = increment_block_count(@),
               !.stdout = Append(@, BlockEvent(rule, entry.explanation)),
               !.exited = TRUE]

\* increment_override_count and append the override notice
GrantOverride(st, rule, entry) ==
    LET new_override_count == increment_override_count(st.override_count) IN
    [st EXCEPT !.override_count = new_override_count,
               !.system_messages =
                   Append(@, Part("override", rule, entry.override_reason[1],
                                  new_override_count))]

Logged(branch, idx, before, after) ==
    [after EXCEPT !.steps = Append(@, Step(branch, idx, before, after))]

\* the block loop without its test of the verdict
BlockIteration_any_verdict(st, idx, rule, entry) ==
    IF rule.action = "block"
    THEN IF Truthy(entry.override_reason)
         THEN IF OverrideLimitReached(st.override_count)
              THEN Logged("limit_block", idx, st, EmitBlock(st, rule, entry))
              ELSE Logged("override", idx, st, GrantOverride(st, rule, entry))
         ELSE Logged("block", idx, st, EmitBlock(st, rule, entry))
    ELSE st

\* one iteration of the loop "Check block rules first"
BlockIteration(st, idx, rule, entry) ==
    IF rule.action = "block" /\ entry.verdict = "YES"
    THEN IF Truthy(entry.override_reason)
         THEN IF OverrideLimitReached(st.override_count)
              THEN Logged("limit_block", idx, st, EmitBlock(st, rule, entry))
              ELSE Logged("override", idx, st, GrantOverride(st, rule, entry))
         ELSE Logged("block", idx, st, EmitBlock(st, rule, entry))
    ELSE st

\* the loop ends at the first sys.exit(0)
RECURSIVE BlockLoop(_, _, _, _)
BlockLoop(order, rl, res, st) ==
    IF order = << >> \/ st.exited THEN st
    ELSE BlockLoop(Tail(order), rl, res,
             BlockIteration(st, Head(order), rl[Head(order)],
                            res[Head(order)]))

\* the notify loop and the suggest loop
RECURSIVE MessageLoop(_, _, _, _)
MessageLoop(order, rl, res, action) ==
    IF order = << >> THEN << >>
    ELSE LET idx == Head(order)
             rest == MessageLoop(Tail(order), rl, res, action)
         IN  IF rl[idx].action = action /\ res[idx].verdict = "YES"
             THEN << Part(action, rl[idx], res[idx].explanation, 0) >>
                      \o rest
             ELSE rest

\* the notify loop runs first and its messages are printed before any block
\* rule is looked at
ResolveResults_notify_first(rl, res, keys, st) ==
    LET notes == MessageLoop(SortSeq(keys, LAMBDA a, b : a < b), rl, res,
                             "notify")
        blocked == BlockLoop(SortSeq(keys, LAMBDA a, b : a < b), rl, res, st)
    IN  IF notes # << >>
        THEN [st EXCEPT !.system_messages = notes,
                        !.stdout = Append(@, [kind |-> "systemMessage",
                                              criteria |-> 0,
                                              reason |-> << >>,
                                              parts |-> notes])]
        ELSE blocked

\* the suggest loop runs before the notify loop
ResolveResults_suggest_first(rl, res, keys, st) ==
    LET blocked == BlockLoop(SortSeq(keys, LAMBDA a, b : a < b), rl, res, st)
    IN  IF blocked.exited THEN blocked
        ELSE LET messages ==
                     blocked.system_messages
                         \o MessageLoop(SortSeq(keys, LAMBDA a, b : a < b),
                                        rl, res, "suggest")
                         \o MessageLoop(SortSeq(keys, LAMBDA a, b : a < b),
                                        rl, res, "notify")
             IN  [blocked EXCEPT
                     !.system_messages = messages,
                     !.stdout = IF messages # << >>
                                THEN Append(@, [kind |-> "systemMessage",
                                                criteria |-> 0,
                                                reason |-> << >>,
                                                parts |-> messages])
                                ELSE @]

\* "Process results in order" up to the final sys.exit(0); keys is
\* list(results.keys())
ResolveResults(rl, res, keys, st) ==
    LET blocked == BlockLoop(SortedKeys(keys), rl, res, st) IN
    IF blocked.exited THEN blocked
    ELSE LET messages ==
                 blocked.system_messages
                     \o MessageLoop(SortedKeys(keys), rl, res, "notify")
                     \o MessageLoop(SortedKeys(keys), rl, res, "suggest")
         IN  [blocked EXCEPT
                 !.system_messages = messages,
                 !.stdout = IF messages # << >>
                            THEN Append(@, SystemMessage(messages))
                            ELSE @]

(***************************************************************************)
(* The invocations of main() for one session, one after the other.         *)
(***************************************************************************)
InitHook ==
    /\ block_count = 0
    /\ override_count = 0
    /\ pc = "idle"
    /\ rules = << >>
    /\ pending = {}
    /\ results = EmptyDict
    /\ stdout = << >>
    /\ system_messages = << >>
    /\ queries_issued = 0
    /\ start_blocks = 0
    /\ start_overrides = 0
    /\ steps = << >>
    /\ failed = {}
    /\ blocks_emitted = 0
    /\ last_message = 0
    /\ turn_content = 0
    /\ claudemd_content = None
    /\ evals = [e \in {"e1", "e2"} |-> [pc |-> "idle", read |-> 0]]
    /\ evaluations = 0
    /\ overrides_granted = 0
    /\ overlapped = FALSE

\* parse_response has not been called on its own
InitParserIdle ==
    /\ response_text = << >>
    /\ parsed = << >>

\* no lifecycle process runs, nothing was started
InitLifecycle(sessions, binary) ==
    /\ opencode_bin \in binary
    /\ lock_file = FALSE
    /\ refs_file = << >>
    /\ lock_holder = "nobody"
    /\ proc = [s \in sessions |->
                  [pc |-> "idle", refs |-> [count |-> 0, pid |-> << >>],
                   child |-> 0, polls |-> 0]]
    /\ alive = {}
    /\ listener = 0
    /\ next_pid = 1
    /\ terminating = {}
    /\ calls = 0
    /\ faults = 0
    /\ starts = 0
    /\ stops = 0
    /\ kills = 0
    /\ ups = 0
    /\ downs = 0
    /\ acquired = 0
    /\ released = 0
    /\ holders = [s \in sessions |-> 0]
    /\ over_releases = 0
    /\ start_failures = 0
    /\ acquire_failures = 0
    /\ cli_stdout = 0
    /\ exit_codes = {}

Init ==
    /\ InitHook
    /\ InitParserIdle
    /\ InitLifecycle({}, {FALSE})

ExitPoints ==
    {"no_input", "safety_valve", "no_queries", "all_failed", "blocked", "end"}

\* the status the process ends with: every exit point of main() is a
\* sys.exit(0); a position that is not an exit point is an uncaught exception
ExitStatus(position) == IF position \in ExitPoints THEN 0 ELSE 1

\* main() up to its third sys.exit(0): stdin is not JSON, the transcript is
\* missing or it holds no assistant message
NoInput ==
    /\ pc = "idle"
    /\ pc' = "no_input"
    /\ start_blocks' = block_count
    /\ start_overrides' = override_count
    /\ UNCHANGED <<block_count, override_count, rules, pending, results,
                   stdout, system_messages, queries_issued, steps, failed,
                   blocks_emitted, inputVars>>
    /\ UNCHANGED nonHookVars

\* main() from the reading of the last message to the submission of the
\* queries, for a configuration rl and what the invocation finds
Evaluate(rl, input) ==
    /\ start_blocks' = block_count
    /\ start_overrides' = override_count
    /\ last_message' = input.last_message
    /\ IF SafetyValveEngaged(block_count)
       THEN /\ pc' = "safety_valve"
            /\ stdout' = Append(stdout, SafetyValveMessage(block_count))
            /\ UNCHANGED <<rules, pending, queries_issued, turn_content,
                           claudemd_content>>
       ELSE LET queries == QueriedRules(rl, input) IN
            /\ rules' = rl
            /\ turn_content' = input.turn_content
            /\ claudemd_content' = LoadedClaudeMd(rl, input)
            /\ queries_issued' = Cardinality(queries)
            /\ pending' = queries
            /\ pc' = IF queries = {} THEN "no_queries" ELSE "collecting"
            /\ UNCHANGED stdout
    /\ UNCHANGED <<block_count, override_count, results, system_messages,
                   steps, failed, blocks_emitted>>
    /\ UNCHANGED nonHookVars

Start(configurations, inputs) ==
    /\ pc = "idle"
    /\ \E rl \in configurations, input \in inputs : Evaluate(rl, input)

\* sys.exit(0): the process ends, the counter files stay
Exit ==
    /\ pc \in ExitPoints
    /\ pc' = "idle"
    /\ rules' = << >>
    /\ pending' = {}
    /\ results' = EmptyDict
    /\ stdout' = << >>
    /\ system_messages' = << >>
    /\ queries_issued' = 0
    /\ start_blocks' = 0
    /\ start_overrides' = 0
    /\ steps' = << >>
    /\ failed' = {}
    /\ last_message' = 0
    /\ turn_content' = 0
    /\ claudemd_content' = None
    /\ UNCHANGED <<block_count, override_count, blocks_emitted>>
    /\ UNCHANGED nonHookVars

\* the loop body without its "except Exception": the exception of a future
\* leaves main()
Complete_uncaught(idx, outcome) ==
    /\ pending' = pending \ {idx}
    /\ results' = CollectResult(results, idx, outcome)
    /\ failed' = IF NoResult(outcome) THEN failed \cup {idx} ELSE failed
    /\ pc' = IF outcome.raised THEN "crashed" ELSE pc
    /\ UNCHANGED <<block_count, override_count, rules, stdout,
                   system_messages, queries_issued, start_blocks,
                   start_overrides, steps, blocks_emitted, inputVars>>
    /\ UNCHANGED nonHookVars

\* one iteration of "for future in as_completed(future_to_idx)"
Complete(idx, outcome) ==
    /\ pending' = pending \ {idx}
    /\ results' = CollectResult(results, idx, outcome)
    /\ failed' = IF NoResult(outcome) THEN failed \cup {idx} ELSE failed
    /\ UNCHANGED <<block_count, override_count, pc, rules, stdout,
                   system_messages, queries_issued, start_blocks,
                   start_overrides, steps, blocks_emitted, inputVars>>
    /\ UNCHANGED nonHookVars

QueryComplete(texts) ==
    /\ pc = "collecting"
    /\ \E idx \in pending, outcome \in QueryOutcomes(texts) :
           Complete(idx, outcome)

\* main() after the executor's with-block: the all-failed guard, the three
\* loops over the results and the final print
ResolveWith(keys) ==
    /\ IF AllQueriesFailed(results, queries_issued)
       THEN /\ stdout' = Append(stdout, MonitoringDisabledMessage)
            /\ pc' = "all_failed"
            /\ UNCHANGED <<block_count, override_count, system_messages,
                           steps, failed, blocks_emitted>>
       ELSE LET st == ResolveResults(rules, results, keys,
                          [block_count |-> block_count,
                           override_count |-> override_count,
                           system_messages |-> system_messages,
                           stdout |-> stdout,
                           exited |-> FALSE,
                           steps |-> steps])
            IN  /\ block_count' = st.block_count
                /\ override_count' = st.override_count
                /\ system_messages' = st.system_messages
                /\ stdout' = st.stdout
                /\ steps' = st.steps
                /\ pc' = IF st.exited THEN "blocked" ELSE "end"
                /\ blocks_emitted' = blocks_emitted + BlockEvents(st.stdout)
    /\ UNCHANGED <<rules, pending, results, queries_issued, start_blocks,
                   start_overrides, failed, inputVars>>
    /\ UNCHANGED nonHookVars

\* the resolution starts as soon as one result is in
Resolve_early ==
    /\ pc = "collecting"
    /\ DOMAIN results # {}
    /\ \E keys \in InsertionOrders(results) : ResolveWith(keys)

Resolve ==
    /\ pc = "collecting"
    /\ pending = {}
    /\ \E keys \in InsertionOrders(results) : ResolveWith(keys)

Next ==
    \/ NoInput
    \/ Start(RuleLists(MaxRules, Actions), TurnInputs)
    \/ QueryComplete(JudgeTexts)
    \/ Resolve
    \/ Exit

Spec == Init /\ [][Next]_vars

\* the same hook under configurations that hold block rules only, with a
\* judge that also answers out of format
NextBlockRules ==
    \/ NoInput
    \/ Start(RuleLists(MaxBlockRules, {"block"}), TurnInputs)
    \/ QueryComplete(JudgeTexts \cup OddTexts)
    \/ Resolve
    \/ Exit

SpecBlockRules == Init /\ [][NextBlockRules]_vars

\* the same hook with a judge whose answers all carry an OVERRIDE: line,
\* whatever the verdict
NextVerdicts ==
    \/ NoInput
    \/ Start(RuleLists(MaxRules, Actions), TurnInputs)
    \/ QueryComplete(VerdictTexts)
    \/ Resolve
    \/ Exit

SpecVerdicts == Init /\ [][NextVerdicts]_vars

\* the hook with its scheduling: a submitted query returns or times out
\* (subprocess.run has timeout=30), the main thread goes on once the
\* executor's with-block is left, and a process that reached sys.exit ends
MaxLiveRules == 1

NextLive ==
    \/ NoInput
    \/ Start(RuleLists(MaxLiveRules, Actions), TurnInputs)
    \/ QueryComplete(JudgeTexts)
    \/ Resolve
    \/ Exit

SpecLive ==
    /\ Init
    /\ [][NextLive]_vars
    /\ WF_vars(QueryComplete(JudgeTexts))
    /\ WF_vars(Resolve)
    /\ WF_vars(Exit)

(***************************************************************************)
(* Evaluations of one session that run at the same time.  The counter      *)
(* files are read and written without a lock: get_block_count and the      *)
(* write_text of increment_block_count are two steps, and so are those of  *)
(* increment_override_count, which follows the get_override_count of the   *)
(* limit test.  An evaluation here has reached the block loop with one     *)
(* BLOCK rule of verdict YES, with an override_reason (kind "override")    *)
(* or without (kind "block").                                              *)
(***************************************************************************)
Evaluations == {"e1", "e2"}

MaxEvaluations == 8

IdleEval == [pc |-> "idle", read |-> 0]

\* what the steps of these evaluations leave alone
OthersUnchanged ==
    UNCHANGED <<pc, rules, pending, results, stdout, system_messages,
                queries_issued, start_blocks, start_overrides, steps, failed,
                inputVars, parserVars, lifecycleVars>>

\* main() up to the block loop: the safety valve, then the rule found
BeginEvaluation(e, kind) ==
    /\ evals[e].pc = "idle"
    /\ evaluations < MaxEvaluations
    /\ evaluations' = evaluations + 1
    /\ overlapped' = (overlapped
                         \/ \E o \in Evaluations \ {e} : evals[o].pc # "idle")
    /\ evals' = [evals EXCEPT ![e].pc =
                     IF SafetyValveEngaged(block_count) THEN "idle"
                     ELSE IF kind = "override" THEN "check_overrides"
                     ELSE "get_block_count"]
    /\ UNCHANGED <<block_count, override_count, blocks_emitted,
                   overrides_granted>>
    /\ OthersUnchanged

\* current_overrides = get_override_count(session_id) and the limit test
CheckOverrides(e) ==
    /\ evals[e].pc = "check_overrides"
    /\ evals' = [evals EXCEPT ![e].pc =
                     IF OverrideLimitReached(override_count)
                     THEN "get_block_count"
                     ELSE "get_override_count"]
    /\ UNCHANGED <<block_count, override_count, blocks_emitted, evaluations,
                   overrides_granted, overlapped>>
    /\ OthersUnchanged

\* increment_override_count: get_override_count(session_id)
GetOverrideCount(e) ==
    /\ evals[e].pc = "get_override_count"
    /\ evals' = [evals EXCEPT ![e] = [pc |-> "write_override_count",
                                      read |-> override_count]]
    /\ UNCHANGED <<block_count, override_count, blocks_emitted, evaluations,
                   overrides_granted, overlapped>>
    /\ OthersUnchanged

\* increment_override_count: write_text(str(count)); the override is
\* granted and the evaluation ends
WriteOverrideCount(e) ==
    /\ evals[e].pc = "write_override_count"
    /\ override_count' = increment_override_count(evals[e].read)
    /\ overrides_granted' = overrides_granted + 1
    /\ evals' = [evals EXCEPT ![e] = IdleEval]
    /\ UNCHANGED <<block_count, blocks_emitted, evaluations, overlapped>>
    /\ OthersUnchanged

\* increment_block_count: get_block_count(session_id)
GetBlockCount(e) ==
    /\ evals[e].pc = "get_block_count"
    /\ evals' = [evals EXCEPT ![e] = [pc |-> "write_block_count",
                                      read |-> block_count]]
    /\ UNCHANGED <<block_count, override_count, blocks_emitted, evaluations,
                   overrides_granted, overlapped>>
    /\ OthersUnchanged

\* increment_block_count: write_text(str(count)); the block decision is
\* printed and the evaluation ends
WriteBlockCount(e) ==
    /\ evals[e].pc = "write_block_count"
    /\ block_count' = increment_block_count(evals[e].read)
    /\ blocks_emitted' = blocks_emitted + 1
    /\ evals' = [evals EXCEPT ![e] = IdleEval]
    /\ UNCHANGED <<override_count, evaluations, overrides_granted,
                   overlapped>>
    /\ OthersUnchanged

NextRace ==
    \/ \E e \in Evaluations, kind \in {"block", "override"} :
           BeginEvaluation(e, kind)
    \/ \E e \in Evaluations : CheckOverrides(e)
    \/ \E e \in Evaluations : GetOverrideCount(e)
    \/ \E e \in Evaluations : WriteOverrideCount(e)
    \/ \E e \in Evaluations : GetBlockCount(e)
    \/ \E e \in Evaluations : WriteBlockCount(e)

SpecRace == Init /\ [][NextRace]_vars

(***************************************************************************)
(* The rules of the running invocation, by what the judge answered.        *)
(***************************************************************************)
Resolved == pc \in {"blocked", "end"}

BlockYes(i) ==
    /\ i \in DOMAIN results
    /\ rules[i].action = "block"
    /\ results[i].verdict = "YES"

\* BLOCK, YES, no override_reason (None, or nothing behind the marker)
PlainBlock(i) == BlockYes(i) /\ ~Truthy(results[i].override_reason)

\* BLOCK, YES, a non-empty override_reason
OverrideBlock(i) == BlockYes(i) /\ Truthy(results[i].override_reason)

AdvisoryYes(i) ==
    /\ i \in DOMAIN results
    /\ rules[i].action \in {"notify", "suggest"}
    /\ results[i].verdict = "YES"

Printed(kind) == {k \in 1..Len(stdout) : stdout[k].kind = kind}

(***************************************************************************)
(* C1: an invocation prints at most one output event, and never both a     *)
(* block decision and a system message.                                    *)
(***************************************************************************)
C1_AtMostOneEvent ==
    /\ Len(stdout) <= 1
    /\ ~(Printed("block") # {} /\ Printed("systemMessage") # {})

\* a block decision was printed after an override notice had been collected
C1_Witness ==
    /\ pc = "blocked"
    /\ Len(stdout) = 1
    /\ system_messages # << >>

(***************************************************************************)
(* C2: an evaluation that starts with block_count >= 10 prints the safety  *)
(* valve advisory, submits no judge query, prints no block decision and    *)
(* leaves both counters as they were.                                      *)
(***************************************************************************)
C2_SafetyValve ==
    (pc \notin {"idle", "no_input"} /\ start_blocks >= MAX_BLOCKS_PER_SESSION)
        => /\ pc = "safety_valve"
           /\ stdout = << SafetyValveMessage(start_blocks) >>
           /\ queries_issued = 0
           /\ pending = {}
           /\ DOMAIN results = {}
           /\ Printed("block") = {}
           /\ block_count = start_blocks
           /\ override_count = start_overrides

C2_Witness ==
    /\ pc = "safety_valve"
    /\ start_blocks = MAX_BLOCKS_PER_SESSION
    /\ start_overrides > 0

(***************************************************************************)
(* C3: over the serialized evaluations of a session that starts at         *)
(* block_count = 0, block_count never exceeds 10, at most 10 block         *)
(* decisions are printed, and no step taken with block_count at 10 prints  *)
(* a block decision.                                                       *)
(***************************************************************************)
C3_BlockCeiling ==
    /\ [](block_count <= MAX_BLOCKS_PER_SESSION)
    /\ [](blocks_emitted <= MAX_BLOCKS_PER_SESSION)
    /\ [][block_count >= MAX_BLOCKS_PER_SESSION
              => /\ blocks_emitted' = blocks_emitted
                 /\ Len(stdout') > Len(stdout)
                        => stdout'[Len(stdout')].kind # "block"]_vars

\* the tenth block decision has just been printed
C3_Witness ==
    /\ pc = "blocked"
    /\ block_count = MAX_BLOCKS_PER_SESSION
    /\ blocks_emitted = MAX_BLOCKS_PER_SESSION

(***************************************************************************)
(* C4: when the collected results hold a BLOCK rule with verdict YES and   *)
(* no override_reason, the only output event is a block decision and no    *)
(* system message is printed, whatever the NOTIFY and SUGGEST rules say.   *)
(***************************************************************************)
C4_BlocksWin ==
    (pc \in ExitPoints /\ \E i \in DOMAIN results : PlainBlock(i))
        => /\ Len(stdout) = 1
           /\ stdout[1].kind = "block"
           /\ Printed("systemMessage") = {}

\* a plain block together with a notify or suggest rule that answered YES
C4_Witness ==
    /\ pc \in ExitPoints
    /\ \E i \in DOMAIN results : PlainBlock(i)
    /\ \E i \in DOMAIN results : AdvisoryYes(i)

(***************************************************************************)
(* C5 as stated: when several BLOCK rules have verdict YES and no          *)
(* override_reason, the block decision names the one of lowest index.      *)
(***************************************************************************)
Min(S) == CHOOSE m \in S : \A k \in S : m <= k

PlainBlocks == {i \in DOMAIN results : PlainBlock(i)}

OverrideBlocks == {i \in DOMAIN results : OverrideBlock(i)}

C5_LowestPlainBlock ==
    (pc \in ExitPoints /\ Cardinality(PlainBlocks) >= 2)
        => /\ Len(stdout) = 1
           /\ stdout[1].kind = "block"
           /\ stdout[1].criteria = rules[Min(PlainBlocks)].criteria

(***************************************************************************)
(* C5 amended: when several BLOCK rules have verdict YES and no            *)
(* override_reason, the block decision names the rule of lowest index      *)
(* among them and the BLOCK rules with verdict YES whose override is       *)
(* refused because override_count has reached 5 when the rule is looked    *)
(* at (the overrides granted to rules of lower index in the same           *)
(* evaluation count).                                                      *)
(***************************************************************************)
RefusedOverride(i) ==
    /\ OverrideBlock(i)
    /\ start_overrides + Cardinality({j \in OverrideBlocks : j < i})
           >= MAX_OVERRIDES_PER_SESSION

HardBlocks == PlainBlocks \cup {i \in OverrideBlocks : RefusedOverride(i)}

C5_LowestHardBlock ==
    (pc \in ExitPoints /\ Cardinality(PlainBlocks) >= 2)
        => /\ Len(stdout) = 1
           /\ stdout[1].kind = "block"
           /\ stdout[1].criteria = rules[Min(HardBlocks)].criteria
           /\ stdout[1].reason = results[Min(HardBlocks)].explanation

\* two plain blocks behind a block rule whose override was refused
C5_Witness ==
    /\ pc = "blocked"
    /\ Cardinality(PlainBlocks) >= 2
    /\ Min(HardBlocks) \notin PlainBlocks

(***************************************************************************)
(* C6: the output event and the two counters after the resolution are the  *)
(* same for every order in which the queries can have completed.           *)
(***************************************************************************)
StartState ==
    [block_count |-> start_blocks, override_count |-> start_overrides,
     system_messages |-> << >>, stdout |-> << >>, exited |-> FALSE,
     steps |-> << >>]

C6_CompletionOrderIrrelevant ==
    Resolved =>
        \A keys \in InsertionOrders(results) :
            LET st == ResolveResults(rules, results, keys, StartState) IN
            /\ st.stdout = stdout
            /\ st.block_count = block_count
            /\ st.override_count = override_count

\* resolved with two results, of which the one of higher index decides
C6_Witness ==
    /\ Resolved
    /\ Cardinality(DOMAIN results) >= 2
    /\ \E i \in DOMAIN results :
           /\ i > 1
           /\ PlainBlock(i)
           /\ BlockYes(1)

(***************************************************************************)
(* C7: an iteration of the block loop that looks at a BLOCK rule with      *)
(* verdict YES and a non-empty override_reason while override_count < 5    *)
(* prints nothing, raises override_count by exactly 1, leaves block_count  *)
(* alone and appends exactly one message, an override notice that names    *)
(* the rule's criteria; no block decision of the invocation names that     *)
(* rule; and when no block ends the loop every such rule is looked at      *)
(* exactly once.                                                           *)
(***************************************************************************)
StepsOf(i) == {k \in 1..Len(steps) : steps[k].idx = i}

C7_OverrideGranted ==
    /\ \A k \in 1..Len(steps) :
           (/\ OverrideBlock(steps[k].idx)
            /\ steps[k].overrides_before < MAX_OVERRIDES_PER_SESSION)
               => /\ steps[k].events = << >>
                  /\ steps[k].overrides_after = steps[k].overrides_before + 1
                  /\ steps[k].blocks_after = steps[k].blocks_before
                  /\ Len(steps[k].messages) = 1
                  /\ steps[k].messages[1].tag = "override"
                  /\ steps[k].messages[1].criteria
                         = rules[steps[k].idx].criteria
                  /\ steps[k].messages[1].text
                         = results[steps[k].idx].override_reason[1]
                  /\ \A e \in Printed("block") :
                         stdout[e].criteria # rules[steps[k].idx].criteria
    /\ pc = "end" =>
           /\ \A i \in OverrideBlocks : Cardinality(StepsOf(i)) = 1
           /\ override_count = start_overrides + Cardinality(OverrideBlocks)

\* an override was granted with four overrides already used
C7_Witness ==
    /\ Resolved
    /\ \E k \in 1..Len(steps) :
           /\ OverrideBlock(steps[k].idx)
           /\ steps[k].overrides_before = MAX_OVERRIDES_PER_SESSION - 1
           /\ steps[k].overrides_after = MAX_OVERRIDES_PER_SESSION

(***************************************************************************)
(* C8: an iteration of the block loop that looks at a BLOCK rule with      *)
(* verdict YES and a non-empty override_reason while override_count is 5   *)
(* prints a block decision for that rule, raises block_count by 1, leaves  *)
(* override_count at 5 and ends the invocation.                            *)
(***************************************************************************)
C8_OverrideLimit ==
    \A k \in 1..Len(steps) :
        (/\ OverrideBlock(steps[k].idx)
         /\ steps[k].overrides_before = MAX_OVERRIDES_PER_SESSION)
            => /\ steps[k].events
                      = << BlockEvent(rules[steps[k].idx],
                                      results[steps[k].idx].explanation) >>
               /\ steps[k].blocks_after = steps[k].blocks_before + 1
               /\ steps[k].overrides_after = MAX_OVERRIDES_PER_SESSION
               /\ steps[k].messages = << >>
               /\ k = Len(steps)
               /\ pc = "blocked"
               /\ stdout = steps[k].events
               /\ override_count = MAX_OVERRIDES_PER_SESSION
               /\ block_count = start_blocks + 1

\* the override of a rule was refused at the limit
C8_Witness ==
    /\ pc = "blocked"
    /\ \E k \in 1..Len(steps) :
           /\ OverrideBlock(steps[k].idx)
           /\ steps[k].overrides_before = MAX_OVERRIDES_PER_SESSION
           /\ steps[k].branch = "limit_block"

(***************************************************************************)
(* C9: once every submitted query has completed, if queries were           *)
(* submitted and none returned a result the only output event is the       *)
(* "monitoring is disabled" advisory; if at least one returned a result    *)
(* that advisory is not printed; and with an empty rule list nothing is    *)
(* printed.                                                                *)
(***************************************************************************)
MentionsDisabled(event) ==
    \E k \in 1..Len(event.parts) : event.parts[k].tag = "monitoring_disabled"

C9_AllFailedGuard ==
    /\ (pc \in ExitPoints /\ queries_issued > 0 /\ failed = 1..queries_issued)
           => stdout = << MonitoringDisabledMessage >>
    /\ failed # 1..queries_issued
           => \A k \in 1..Len(stdout) : ~MentionsDisabled(stdout[k])
    /\ pc = "no_queries" => (stdout = << >> /\ queries_issued = 0)

\* two queries were submitted and both failed
C9_Witness ==
    /\ pc \in ExitPoints
    /\ queries_issued = 2
    /\ failed = {1, 2}
    /\ Len(stdout) = 1

(***************************************************************************)
(* C10: a rule whose query failed is absent from the results, no output    *)
(* event, message or step of the block loop names it, it changes no        *)
(* counter, and when some query succeeded the output and the counters are  *)
(* the ones the hook produces for the rule list without the failed rules.  *)
(***************************************************************************)
RECURSIVE Ascending(_)
Ascending(S) ==
    IF S = {} THEN << >> ELSE << Min(S) >> \o Ascending(S \ {Min(S)})

\* the rule list and the results without the rules whose query failed
Survivors == Ascending((1..Len(rules)) \ (failed \cup pending))

RulesWithoutFailed == [k \in 1..Len(Survivors) |-> rules[Survivors[k]]]

ResultsWithoutFailed == [k \in 1..Len(Survivors) |-> results[Survivors[k]]]

NamesRule(event, i) ==
    \/ event.kind = "block" /\ event.criteria = rules[i].criteria
    \/ \E k \in 1..Len(event.parts) :
           event.parts[k].criteria = rules[i].criteria

C10_FailOpen ==
    /\ failed \cap DOMAIN results = {}
    /\ \A i \in failed :
           /\ \A k \in 1..Len(stdout) : ~NamesRule(stdout[k], i)
           /\ \A k \in 1..Len(system_messages) :
                  system_messages[k].criteria # rules[i].criteria
           /\ StepsOf(i) = {}
    /\ (pc \in ExitPoints /\ failed = 1..queries_issued)
           => (block_count = start_blocks /\ override_count = start_overrides)
    /\ (Resolved /\ failed # {}) =>
           LET st == ResolveResults(RulesWithoutFailed, ResultsWithoutFailed,
                                    [k \in 1..Len(Survivors) |-> k],
                                    StartState)
           IN  /\ st.stdout = stdout
               /\ st.system_messages = system_messages
               /\ st.block_count = block_count
               /\ st.override_count = override_count

\* the query of the first rule failed and the second rule blocked
C10_Witness ==
    /\ pc = "blocked"
    /\ failed = {1}
    /\ rules[1].action = "block"
    /\ PlainBlock(2)

\* the hook under configurations of block rules of every mode, for brief and
\* long last messages, with and without turn text and CLAUDE.md
MaxModeRules == 2

NextModes ==
    \/ NoInput
    \/ Start(ModeRuleLists(MaxModeRules, {"block"}, Modes), Inputs)
    \/ QueryComplete({TxtYes, TxtNo})
    \/ Resolve
    \/ Exit

SpecModes == Init /\ [][NextModes]_vars

(***************************************************************************)
(* parse_response on its own: the judge's stdout is drawn from texts built *)
(* of a first line and up to MaxRestLines further lines; query_opencode    *)
(* strips it and main() calls parse_response when it is not empty.         *)
(***************************************************************************)
MaxRestLines == 3

FirstLines ==
    {<< "Y", "E", "S" >>,
     << "n", "o" >>,
     << "N", "o", ",", " ", "y", "e", "s" >>,
     << "o", "k", " " >>}

RestLines ==
    {<< "O", "V", "E", "R", "R", "I", "D", "E", ":", " ", "o", "k" >>,
     << " ", "O", "V", "E", "R", "R", "I", "D", "E", ":", "a" >>,
     << >>,
     << " ", "b", "a", "d", " " >>,
     << "x" >>}

LinesUpTo(n) == UNION {[1..k -> RestLines] : k \in 0..n}

\* result.stdout.strip() of query_opencode, for the answers main() parses
Responses ==
    {Strip(Join(<< first >> \o rest)) :
        first \in FirstLines, rest \in LinesUpTo(MaxRestLines)}

InitParser ==
    /\ InitHook
    /\ InitLifecycle({}, {FALSE})
    /\ response_text \in Responses
    /\ parsed = None

\* verdict, explanation, override_reason = parse_response(response)
Parse ==
    /\ parsed = None
    /\ response_text # << >>
    /\ parsed' = Some(parse_response(response_text))
    /\ UNCHANGED <<response_text, mainVars, lifecycleVars>>

\* the next answer of the judge arrives
NextResponse ==
    /\ parsed # None
    /\ \E r \in Responses :
           /\ response_text' = r
           /\ parsed' = None
    /\ UNCHANGED <<mainVars, lifecycleVars>>

NextParser ==
    \/ Parse
    \/ NextResponse

SpecParser == InitParser /\ [][NextParser]_vars

(***************************************************************************)
(* server_lifecycle.py: the sessions share one backend through a           *)
(* reference count kept in a file and guarded by flock.  Each call of      *)
(* --acquire or --release is a process of its own; a session runs one      *)
(* call at a time.  The spawned backends are the pids 1, 2, ...; the port  *)
(* is free (0), held by a spawned backend, or held by a server that was    *)
(* not spawned here (EXTERNAL).                                            *)
(***************************************************************************)
NOBODY == "nobody"

ZeroRefs == [count |-> 0, pid |-> None]

IdleProc == [pc |-> "idle", refs |-> ZeroRefs, child |-> 0, polls |-> 0]

\* contents of OPENCODE_REFS_FILE that save_refs did not write: a text that
\* json.loads rejects (or a file that cannot be read), and a JSON value that
\* is not a dict with "count" and "pid"
NOT_JSON == [text |-> "not JSON"]

OTHER_JSON == [text |-> "JSON of another shape"]

\* json.loads(read_text()): the zero record for a missing file and on
\* JSONDecodeError or OSError, the parsed value otherwise
load_refs(file) ==
    IF file = None \/ file[1] = NOT_JSON THEN ZeroRefs ELSE file[1]

\* refs["pid"] and refs["count"] raise on a value that is not the record
IsRecord(refs) == refs # OTHER_JSON

save_refs(refs) == Some(refs)

\* a probe that never connects
is_server_available_never(port) == FALSE

is_server_available(port) == port # 0

is_server_running(pid, running, port) ==
    IF pid = None THEN FALSE
    ELSE IF pid[1] = EXTERNAL THEN is_server_available(port)
    ELSE pid[1] \in running

\* the check of the recorded pid without its liveness probe
ResetIfStale_always(refs, running, port) == ZeroRefs

\* the recorded pid is trusted without a probe
ResetIfStale_never(refs, running, port) == refs

\* opencode_acquire: the record after the check of the recorded pid
ResetIfStale(refs, running, port) ==
    IF refs.pid # None /\ ~is_server_running(refs.pid, running, port)
    THEN ZeroRefs
    ELSE refs

\* a release that gives up every reference
Decremented_to_zero(refs) == [refs EXCEPT !.count = 0]

\* the decrement without max(0, ...)
Decremented_no_floor(refs) == [refs EXCEPT !.count = @ - 1]

\* opencode_release: refs["count"] = max(0, refs["count"] - 1)
Decremented(refs) ==
    [refs EXCEPT !.count = IF @ - 1 > 0 THEN @ - 1 ELSE 0]

\* the session s gives a reference back, or has none to give back
GivenBack(s) ==
    /\ holders' = [holders EXCEPT ![s] = IF @ > 0 THEN @ - 1 ELSE 0]
    /\ over_releases' = IF holders[s] > 0
                        THEN over_releases
                        ELSE over_releases + 1

\* a backend that ignores every signal
Exited_survives(pid) == UNCHANGED <<alive, terminating, listener>>

\* the backend pid is gone: it no longer runs and no longer listens
Exited(pid) ==
    /\ alive' = alive \ {pid}
    /\ terminating' = terminating \ {pid}
    /\ listener' = IF listener = pid THEN 0 ELSE listener

\* the advisory is printed whatever opencode_acquire returned
AcquireExits_always_prints(ok) ==
    /\ acquire_failures' = IF ok
                           THEN acquire_failures
                           ELSE acquire_failures + 1
    /\ cli_stdout' = cli_stdout + 1
    /\ exit_codes' = exit_codes \cup {0}

\* main() after ok = opencode_acquire(): the systemMessage is printed when
\* ok is false, then sys.exit(0)
AcquireExits(ok) ==
    /\ acquire_failures' = IF ok
                           THEN acquire_failures
                           ELSE acquire_failures + 1
    /\ cli_stdout' = IF ok THEN cli_stdout ELSE cli_stdout + 1
    /\ exit_codes' = exit_codes \cup {0}

\* main() after opencode_release(): sys.exit(0), nothing is printed
ReleaseExits ==
    /\ exit_codes' = exit_codes \cup {0}
    /\ UNCHANGED <<acquire_failures, cli_stdout>>

\* opencode_acquire up to the flock: without the binary it returns False
BeginAcquire(s) ==
    /\ proc[s].pc = "idle"
    /\ calls' = calls + 1
    /\ IF opencode_bin
       THEN /\ lock_file' = TRUE
            /\ proc' = [proc EXCEPT ![s].pc = "acquire_flock"]
            /\ UNCHANGED exitVars
       ELSE /\ AcquireExits(FALSE)
            /\ UNCHANGED <<lock_file, proc>>
    /\ UNCHANGED <<opencode_bin, refs_file, lock_holder, osVars, faults,
                   callVars, mainVars, parserVars>>

\* opencode_release up to the flock: without the lock file it returns
BeginRelease(s) ==
    /\ proc[s].pc = "idle"
    /\ calls' = calls + 1
    /\ IF lock_file
       THEN /\ proc' = [proc EXCEPT ![s].pc = "release_flock"]
            /\ UNCHANGED <<released, holders, over_releases, exitVars>>
       ELSE /\ released' = released + 1
            /\ GivenBack(s)
            /\ ReleaseExits
            /\ UNCHANGED proc
    /\ UNCHANGED <<opencode_bin, fileVars, lock_holder, osVars, faults,
                   starts, stops, kills, ups, downs, acquired,
                   start_failures, mainVars, parserVars>>

\* a lock that excludes nobody
Flock_no_exclusion(s) ==
    /\ proc[s].pc \in {"acquire_flock", "release_flock"}
    /\ lock_holder' = s
    /\ proc' = [proc EXCEPT ![s].pc = IF @ = "acquire_flock"
                                      THEN "acquire_locked"
                                      ELSE "release_locked"]
    /\ UNCHANGED <<opencode_bin, fileVars, osVars, calls, faults, countVars,
                   mainVars, parserVars>>

\* fcntl.flock(lock_file.fileno(), fcntl.LOCK_EX) returns
Flock(s) ==
    /\ proc[s].pc \in {"acquire_flock", "release_flock"}
    /\ lock_holder = NOBODY
    /\ lock_holder' = s
    /\ proc' = [proc EXCEPT ![s].pc = IF @ = "acquire_flock"
                                      THEN "acquire_locked"
                                      ELSE "release_locked"]
    /\ UNCHANGED <<opencode_bin, fileVars, osVars, calls, faults, countVars,
                   mainVars, parserVars>>

\* refs["count"] += 1; save_refs(refs); return True, through the finally
AcquireReturnsTrue(s, refs) ==
    /\ refs_file' = save_refs([refs EXCEPT !.count = @ + 1])
    /\ lock_holder' = NOBODY
    /\ proc' = [proc EXCEPT ![s] = IdleProc]
    /\ acquired' = acquired + 1
    /\ holders' = [holders EXCEPT ![s] = @ + 1]
    /\ ups' = IF load_refs(refs_file).count = 0 /\ refs.count = 0
              THEN ups + 1
              ELSE ups
    /\ AcquireExits(TRUE)
    /\ UNCHANGED <<lock_file, downs, released>>

\* a failed acquire that saves the record it worked on
AcquireReturnsFalse_saves(s) ==
    /\ refs_file' = save_refs(proc[s].refs)
    /\ lock_holder' = NOBODY
    /\ proc' = [proc EXCEPT ![s] = IdleProc]
    /\ AcquireExits(FALSE)
    /\ UNCHANGED <<lock_file, ups, downs, acquired, released, holders>>

\* "if pid is None: return False", through the finally: nothing is saved
AcquireReturnsFalse(s) ==
    /\ lock_holder' = NOBODY
    /\ proc' = [proc EXCEPT ![s] = IdleProc]
    /\ AcquireExits(FALSE)
    /\ UNCHANGED <<fileVars, ups, downs, acquired, released, holders>>

\* an exception that leaves the call without the unlock of the finally
Raised_keeps_lock(s) ==
    /\ proc' = [proc EXCEPT ![s] = IdleProc]
    /\ exit_codes' = exit_codes \cup {1}
    /\ UNCHANGED <<fileVars, lock_holder, acquire_failures, cli_stdout>>

\* an exception leaves the try block: the finally unlocks, nothing is
\* saved, and main() ends with a traceback and status 1
Raised(s) ==
    /\ lock_holder' = NOBODY
    /\ proc' = [proc EXCEPT ![s] = IdleProc]
    /\ exit_codes' = exit_codes \cup {1}
    /\ UNCHANGED <<fileVars, acquire_failures, cli_stdout>>

\* opencode_acquire under the lock: load_refs, the stale check and, for a
\* count of 0, start_opencode_server up to its Popen
AcquireLocked(s) ==
    /\ proc[s].pc = "acquire_locked"
    /\ IF ~IsRecord(load_refs(refs_file))
       THEN /\ Raised(s)
            /\ UNCHANGED <<osVars, starts, ups, downs, acquired, released,
                           holders>>
       ELSE
       LET refs == ResetIfStale(load_refs(refs_file), alive, listener) IN
       IF refs.count = 0
       THEN /\ starts' = starts + 1
            /\ IF is_server_available(listener)
               THEN /\ AcquireReturnsTrue(s,
                           [refs EXCEPT !.pid = Some(EXTERNAL)])
                    /\ UNCHANGED osVars
               ELSE /\ alive' = alive \cup {next_pid}
                    /\ next_pid' = next_pid + 1
                    /\ proc' = [proc EXCEPT ![s] =
                                   [pc |-> "start_poll", refs |-> refs,
                                    child |-> next_pid, polls |-> 0]]
                    /\ UNCHANGED <<fileVars, lock_holder, listener,
                                   terminating, ups, downs, acquired,
                                   released, holders, exitVars>>
       ELSE /\ AcquireReturnsTrue(s, refs)
            /\ UNCHANGED <<osVars, starts>>
    /\ UNCHANGED <<opencode_bin, calls, faults, stops, kills, over_releases,
                   start_failures, mainVars, parserVars>>

\* one round of the readiness loop of start_opencode_server; after the last
\* round the child is terminated and acquire returns False
StartPoll(s) ==
    /\ proc[s].pc = "start_poll"
    /\ IF is_server_available(listener)
       THEN /\ AcquireReturnsTrue(s,
                   [proc[s].refs EXCEPT !.pid = Some(proc[s].child)])
            /\ UNCHANGED <<osVars, start_failures>>
       ELSE IF proc[s].polls + 1 < READINESS_POLLS
       THEN /\ proc' = [proc EXCEPT ![s].polls = @ + 1]
            /\ UNCHANGED <<fileVars, lock_holder, osVars, ups, downs,
                           acquired, released, holders, start_failures,
                           exitVars>>
       ELSE /\ Exited(proc[s].child)
            /\ start_failures' = start_failures + 1
            /\ AcquireReturnsFalse(s)
            /\ UNCHANGED next_pid
    /\ UNCHANGED <<opencode_bin, calls, faults, starts, stops, kills,
                   over_releases, mainVars, parserVars>>

\* a release that saves the pid it loaded
ReleaseReturns_keeps_pid(s, refs) ==
    /\ refs_file' = save_refs([refs EXCEPT !.pid = load_refs(refs_file).pid])
    /\ lock_holder' = NOBODY
    /\ proc' = [proc EXCEPT ![s] = IdleProc]
    /\ released' = released + 1
    /\ downs' = IF load_refs(refs_file).count = 1 /\ refs.count = 0
                THEN downs + 1
                ELSE downs
    /\ ReleaseExits
    /\ UNCHANGED <<lock_file, ups, acquired>>

\* save_refs(refs) of opencode_release, through the finally
ReleaseReturns(s, refs) ==
    /\ refs_file' = save_refs(refs)
    /\ lock_holder' = NOBODY
    /\ proc' = [proc EXCEPT ![s] = IdleProc]
    /\ released' = released + 1
    /\ downs' = IF load_refs(refs_file).count = 1 /\ refs.count = 0
                THEN downs + 1
                ELSE downs
    /\ ReleaseExits
    /\ UNCHANGED <<lock_file, ups, acquired>>

\* opencode_release under the lock: load_refs, the decrement and, for a
\* count of 0 with a recorded pid, stop_opencode_server up to its SIGTERM
ReleaseLocked(s) ==
    /\ proc[s].pc = "release_locked"
    /\ IF IsRecord(load_refs(refs_file))
       THEN GivenBack(s)
       ELSE UNCHANGED <<holders, over_releases>>
    /\ IF ~IsRecord(load_refs(refs_file))
       THEN /\ Raised(s)
            /\ UNCHANGED <<osVars, stops, ups, downs, acquired, released>>
       ELSE
       LET refs == Decremented(load_refs(refs_file)) IN
       IF refs.count = 0 /\ refs.pid # None
       THEN /\ stops' = stops + 1
            /\ IF refs.pid[1] = EXTERNAL \/ refs.pid[1] \notin alive
               THEN /\ ReleaseReturns(s, [refs EXCEPT !.pid = None])
                    /\ UNCHANGED osVars
               ELSE /\ terminating' = terminating \cup {refs.pid[1]}
                    /\ proc' = [proc EXCEPT ![s] =
                                   [pc |-> "stop_poll", refs |-> refs,
                                    child |-> refs.pid[1], polls |-> 0]]
                    /\ UNCHANGED <<fileVars, lock_holder, alive, listener,
                                   next_pid, ups, downs, acquired, released,
                                   exitVars>>
       ELSE /\ ReleaseReturns(s, refs)
            /\ UNCHANGED <<osVars, stops>>
    /\ UNCHANGED <<opencode_bin, calls, faults, starts, kills,
                   start_failures, mainVars, parserVars>>

\* a stop that sends SIGKILL the first time it finds the backend running
StopPoll_kills_at_once(s) ==
    /\ proc[s].pc = "stop_poll"
    /\ IF ~is_server_running(Some(proc[s].child), alive, listener)
       THEN /\ ReleaseReturns(s, [proc[s].refs EXCEPT !.pid = None])
            /\ UNCHANGED <<osVars, kills>>
       ELSE /\ kills' = kills + 1
            /\ Exited(proc[s].child)
            /\ UNCHANGED next_pid
            /\ ReleaseReturns(s, [proc[s].refs EXCEPT !.pid = None])
    /\ UNCHANGED <<opencode_bin, calls, faults, starts, stops, holders,
                   over_releases, start_failures, mainVars, parserVars>>

\* one round of the liveness loop of stop_opencode_server; after the last
\* round the backend gets SIGKILL
StopPoll(s) ==
    /\ proc[s].pc = "stop_poll"
    /\ IF ~is_server_running(Some(proc[s].child), alive, listener)
       THEN /\ ReleaseReturns(s, [proc[s].refs EXCEPT !.pid = None])
            /\ UNCHANGED <<osVars, kills>>
       ELSE IF proc[s].polls + 1 < LIVENESS_POLLS
       THEN /\ proc' = [proc EXCEPT ![s].polls = @ + 1]
            /\ UNCHANGED <<fileVars, lock_holder, osVars, kills, ups, downs,
                           acquired, released, exitVars>>
       ELSE /\ kills' = kills + 1
            /\ Exited(proc[s].child)
            /\ UNCHANGED next_pid
            /\ ReleaseReturns(s, [proc[s].refs EXCEPT !.pid = None])
    /\ UNCHANGED <<opencode_bin, calls, faults, starts, stops, holders,
                   over_releases, start_failures, mainVars, parserVars>>

\* a spawned backend binds the port
ServerListens(pid) ==
    /\ pid \in alive
    /\ listener = 0
    /\ listener' = pid
    /\ UNCHANGED <<opencode_bin, fileVars, lock_holder, proc, alive, next_pid,
                   terminating, calls, faults, countVars, mainVars,
                   parserVars>>

\* a backend that received SIGTERM exits
TermExit(pid) ==
    /\ pid \in terminating
    /\ Exited(pid)
    /\ UNCHANGED <<opencode_bin, fileVars, lock_holder, proc, next_pid, calls,
                   faults, countVars, mainVars, parserVars>>

\* a backend dies on its own
ServerCrash(pid) ==
    /\ pid \in alive
    /\ Exited(pid)
    /\ faults' = faults + 1
    /\ UNCHANGED <<opencode_bin, fileVars, lock_holder, proc, next_pid, calls,
                   countVars, mainVars, parserVars>>

\* a server that was not spawned here takes the free port
ExternalUp ==
    /\ listener = 0
    /\ listener' = EXTERNAL
    /\ UNCHANGED <<opencode_bin, fileVars, lock_holder, proc, alive, next_pid,
                   terminating, calls, faults, countVars, mainVars,
                   parserVars>>

\* that server goes away
ExternalDown ==
    /\ listener = EXTERNAL
    /\ listener' = 0
    /\ faults' = faults + 1
    /\ UNCHANGED <<opencode_bin, fileVars, lock_holder, proc, alive, next_pid,
                   terminating, calls, countVars, mainVars, parserVars>>

\* the steps of the calls that are under way
Lock(sessions) == \E s \in sessions : Flock(s)

AcquireUnderLock(sessions) == \E s \in sessions : AcquireLocked(s)

ReadinessPoll(sessions) == \E s \in sessions : StartPoll(s)

ReleaseUnderLock(sessions) == \E s \in sessions : ReleaseLocked(s)

LivenessPoll(sessions) == \E s \in sessions : StopPoll(s)

Listen == \E pid \in alive : ServerListens(pid)

Terminated == \E pid \in terminating : TermExit(pid)

Crash(maxfaults) == faults < maxfaults /\ \E pid \in alive : ServerCrash(pid)

ExternalGone(maxfaults) == faults < maxfaults /\ ExternalDown

\* something else than save_refs writes OPENCODE_REFS_FILE, while no call
\* holds the lock
RecordDamaged(content) ==
    /\ lock_holder = NOBODY
    /\ refs_file' = Some(content)
    /\ faults' = faults + 1
    /\ UNCHANGED <<opencode_bin, lock_file, lock_holder, proc, osVars, calls,
                   countVars, mainVars, parserVars>>

Damage(contents, maxfaults) ==
    faults < maxfaults /\ \E content \in contents : RecordDamaged(content)

\* any session calls --acquire or --release, at most maxcalls calls in all
CallAcquire(sessions, maxcalls) ==
    calls < maxcalls /\ \E s \in sessions : BeginAcquire(s)

CallRelease(sessions, maxcalls) ==
    calls < maxcalls /\ \E s \in sessions : BeginRelease(s)

Sessions == {"A", "B"}
MaxCalls == 4
MaxFaults == 1

InitSessions ==
    /\ InitHook
    /\ InitParserIdle
    /\ InitLifecycle(Sessions, BOOLEAN)

NextSessions ==
    \/ CallAcquire(Sessions, MaxCalls)
    \/ CallRelease(Sessions, MaxCalls)
    \/ Lock(Sessions)
    \/ AcquireUnderLock(Sessions)
    \/ ReadinessPoll(Sessions)
    \/ ReleaseUnderLock(Sessions)
    \/ LivenessPoll(Sessions)
    \/ Listen
    \/ Terminated
    \/ Crash(MaxFaults)
    \/ ExternalUp
    \/ ExternalGone(MaxFaults)

SpecSessions == InitSessions /\ [][NextSessions]_vars

\* the same calls when OPENCODE_REFS_FILE can be overwritten with something
\* that is not the record
NextDamaged ==
    \/ CallAcquire(Sessions, MaxCalls)
    \/ CallRelease(Sessions, MaxCalls)
    \/ Lock(Sessions)
    \/ AcquireUnderLock(Sessions)
    \/ ReadinessPoll(Sessions)
    \/ ReleaseUnderLock(Sessions)
    \/ LivenessPoll(Sessions)
    \/ Listen
    \/ Terminated
    \/ Damage({NOT_JSON, OTHER_JSON}, MaxFaults)

SpecDamaged == InitSessions /\ [][NextDamaged]_vars

\* calls that are scheduled: a process that has begun a call goes on running,
\* and flock returns once the lock is free; a backend may never listen and
\* may ignore SIGTERM, and the record can be overwritten as before
MaxReturningCalls == 3

NextReturning ==
    \/ CallAcquire(Sessions, MaxReturningCalls)
    \/ CallRelease(Sessions, MaxReturningCalls)
    \/ Lock(Sessions)
    \/ AcquireUnderLock(Sessions)
    \/ ReadinessPoll(Sessions)
    \/ ReleaseUnderLock(Sessions)
    \/ LivenessPoll(Sessions)
    \/ Listen
    \/ Terminated
    \/ Damage({NOT_JSON, OTHER_JSON}, MaxFaults)

SpecReturning ==
    /\ InitSessions
    /\ [][NextReturning]_vars
    /\ WF_vars(Lock(Sessions))
    /\ WF_vars(AcquireUnderLock(Sessions))
    /\ WF_vars(ReadinessPoll(Sessions))
    /\ WF_vars(ReleaseUnderLock(Sessions))
    /\ WF_vars(LivenessPoll(Sessions))

\* the calls of TestReferenceCounting, one after the other
Script ==
    << [op |-> "acquire", session |-> "A"],
       [op |-> "acquire", session |-> "B"],
       [op |-> "release", session |-> "A"],
       [op |-> "release", session |-> "B"] >>

\* the next call of the script starts when the one before it has returned
ScriptedCall(script) ==
    /\ calls < Len(script)
    /\ \A s \in DOMAIN proc : proc[s].pc = "idle"
    /\ IF script[calls + 1].op = "acquire"
       THEN BeginAcquire(script[calls + 1].session)
       ELSE BeginRelease(script[calls + 1].session)

NextScript ==
    \/ ScriptedCall(Script)
    \/ Lock(Sessions)
    \/ AcquireUnderLock(Sessions)
    \/ ReadinessPoll(Sessions)
    \/ ReleaseUnderLock(Sessions)
    \/ LivenessPoll(Sessions)
    \/ Listen
    \/ Terminated
    \/ Crash(MaxFaults)
    \/ ExternalUp
    \/ ExternalGone(MaxFaults)

SpecScript == InitSessions /\ [][NextScript]_vars

\* five processes that call --acquire, in any interleaving
Acquirers == {"p1", "p2", "p3", "p4", "p5"}

InitAcquirers ==
    /\ InitHook
    /\ InitParserIdle
    /\ InitLifecycle(Acquirers, BOOLEAN)

NextAcquirers ==
    \/ CallAcquire(Acquirers, Cardinality(Acquirers))
    \/ Lock(Acquirers)
    \/ AcquireUnderLock(Acquirers)
    \/ ReadinessPoll(Acquirers)
    \/ Listen
    \/ Crash(MaxFaults)
    \/ ExternalUp
    \/ ExternalGone(MaxFaults)

SpecAcquirers == InitAcquirers /\ [][NextAcquirers]_vars

\* sessions that pair their calls: a session calls --acquire when it holds
\* nothing and --release when it holds a reference, the calls end and the
\* lock is granted, and no server goes away on its own
MaxAcquires == 3

AcquireCalls ==
    acquired + acquire_failures
        + Cardinality({s \in DOMAIN proc :
              proc[s].pc \in {"acquire_flock", "acquire_locked", "start_poll"}})

PairedAcquire(sessions, maxacquires) ==
    /\ AcquireCalls < maxacquires
    /\ \E s \in sessions : holders[s] = 0 /\ BeginAcquire(s)

PairedRelease(sessions) ==
    \E s \in sessions : holders[s] > 0 /\ BeginRelease(s)

NextPaired ==
    \/ PairedAcquire(Sessions, MaxAcquires)
    \/ PairedRelease(Sessions)
    \/ Lock(Sessions)
    \/ AcquireUnderLock(Sessions)
    \/ ReadinessPoll(Sessions)
    \/ ReleaseUnderLock(Sessions)
    \/ LivenessPoll(Sessions)
    \/ Listen
    \/ Terminated
    \/ ExternalUp

SpecPaired ==
    /\ InitSessions
    /\ [][NextPaired]_vars
    /\ WF_vars(PairedRelease(Sessions))
    /\ WF_vars(Lock(Sessions))
    /\ WF_vars(AcquireUnderLock(Sessions))
    /\ WF_vars(ReadinessPoll(Sessions))
    /\ WF_vars(ReleaseUnderLock(Sessions))
    /\ WF_vars(LivenessPoll(Sessions))

(***************************************************************************)
(* C11: every invocation of the hook that has started reaches an exit      *)
(* point, and the status it exits with is 0, whether its queries           *)
(* succeeded, failed, timed out or raised and whether it blocks, prints a  *)
(* system message or prints nothing.                                       *)
(***************************************************************************)
C11_Terminates ==
    (pc # "idle") ~> (pc \in ExitPoints /\ ExitStatus(pc) = 0)

\* an invocation whose only query raised, timed out or answered nothing has
\* printed the warning and stands at its sys.exit(0)
C11_Witness ==
    /\ pc = "all_failed"
    /\ ExitStatus(pc) = 0
    /\ queries_issued = 1
    /\ failed = {1}
    /\ pending = {}

(***************************************************************************)
(* C12: the verdict of a parsed answer is YES when its first line,         *)
(* upper-cased, holds YES and not NO, NO when it holds NO and not YES, and *)
(* unknown (the empty verdict) when it holds both or neither.              *)
(***************************************************************************)
FirstLine == Upper(Strip(Split(response_text)[1]))

C12_VerdictTokens ==
    parsed # None =>
        parsed[1].verdict =
            IF Contains(FirstLine, YES) /\ ~Contains(FirstLine, NO) THEN "YES"
            ELSE IF Contains(FirstLine, NO) /\ ~Contains(FirstLine, YES)
            THEN "NO"
            ELSE ""

(***************************************************************************)
(* C13 as stated: every line after the first that begins with OVERRIDE:    *)
(* gives override_reason its trimmed remainder, the explanation is the     *)
(* join of the other non-blank lines as they stand, and without such a     *)
(* line override_reason is absent.                                         *)
(***************************************************************************)
RemainingLines == Tail(Split(response_text))

Remainder(line) == Strip(SubSeq(line, OverrideMarkerLen + 1, Len(line)))

NotBlank(line) == Strip(line) # << >>

C13_OverrideAndExplanation ==
    parsed # None =>
        LET lines == RemainingLines
            marked == {k \in 1..Len(lines) :
                          StartsWith(lines[k], OVERRIDE_MARKER)}
            others == SelectSeq(lines,
                          LAMBDA l : NotBlank(l)
                                     /\ ~StartsWith(l, OVERRIDE_MARKER))
        IN  /\ \A k \in marked :
                   parsed[1].override_reason = Some(Remainder(lines[k]))
            /\ parsed[1].explanation = Join(others)
            /\ marked = {} => parsed[1].override_reason = None

(***************************************************************************)
(* C13, amended: the lines after the first are trimmed before they are     *)
(* looked at; override_reason is the trimmed remainder of the last trimmed *)
(* line that begins with OVERRIDE:, and absent when there is none; the     *)
(* explanation is the join, in order, of the other trimmed lines that are  *)
(* not empty.                                                              *)
(***************************************************************************)
TrimmedLines == [k \in 1..Len(RemainingLines) |-> Strip(RemainingLines[k])]

MarkedLines ==
    {k \in 1..Len(TrimmedLines) :
        StartsWith(TrimmedLines[k], OVERRIDE_MARKER)}

Max(S) == CHOOSE m \in S : \A other \in S : other <= m

C13_TrimmedOverrideAndExplanation ==
    parsed # None =>
        /\ parsed[1].override_reason =
               IF MarkedLines = {} THEN None
               ELSE Some(Remainder(TrimmedLines[Max(MarkedLines)]))
        /\ parsed[1].explanation =
               Join(SelectSeq(TrimmedLines,
                        LAMBDA l : l # << >>
                                   /\ ~StartsWith(l, OVERRIDE_MARKER)))

\* an answer with two OVERRIDE: lines and a padded explanation line between
\* them has been parsed
C13_Witness ==
    /\ parsed # None
    /\ Cardinality(MarkedLines) = 2
    /\ parsed[1].explanation # << >>
    /\ parsed[1].override_reason # None

(***************************************************************************)
(* C14 as stated: in an invocation whose last message is shorter than the  *)
(* minimum length, no last-mode rule is queried and none produces a block, *)
(* and every turn-mode and every claudemd-mode rule is queried.            *)
(***************************************************************************)
Queried == pending \cup DOMAIN results \cup failed

BriefInvocation ==
    /\ pc \in {"no_queries", "collecting", "all_failed", "blocked", "end"}
    /\ is_brief_response(last_message)

LastMode(i) == rules[i].mode \notin {"turn", "all", "claudemd"}

NoLastModeRuleActs ==
    /\ \A i \in 1..Len(rules) : LastMode(i) => i \notin Queried
    /\ \A k \in 1..Len(stdout), i \in 1..Len(rules) :
           (stdout[k].kind = "block" /\ stdout[k].criteria = rules[i].criteria)
               => ~LastMode(i)

C15_CountZeroIffNoOwner ==
    refs_file # None =>
        (refs_file[1].count = 0 <=> refs_file[1].pid = None)

\* two acquires and two releases have returned, the last one stopped the
\* server and saved the zero record
C15_Witness ==
    /\ refs_file = Some(ZeroRefs)
    /\ acquired = 2
    /\ released = 2
    /\ stops = 1
    /\ lock_holder = NOBODY

(***************************************************************************)
(* C16: when acquire(A), acquire(B), release(A), release(B) run one after  *)
(* the other, the binary is installed, every start succeeds and no server  *)
(* goes away on its own, the persisted count after the calls is 1, 2, 1,   *)
(* 0, start is called once (by the first acquire) and stop is called once, *)
(* by the fourth call and not before.                                      *)
(***************************************************************************)
PersistedCount == load_refs(refs_file).count

Quiet == \A s \in DOMAIN proc : proc[s].pc = "idle"

Healthy == opencode_bin /\ start_failures = 0 /\ faults = 0

CountAfter == << 0, 1, 2, 1, 0 >>

C16_AcquireAcquireReleaseRelease ==
    Healthy =>
        /\ starts <= 1
        /\ stops <= 1
        /\ stops = 1 => calls = Len(Script)
        /\ Quiet =>
               /\ PersistedCount = CountAfter[calls + 1]
               /\ starts = (IF calls >= 1 THEN 1 ELSE 0)
               /\ stops = (IF calls = Len(Script) THEN 1 ELSE 0)

\* the four calls have returned: one backend was spawned and it was stopped
C16_Witness ==
    /\ Healthy
    /\ Quiet
    /\ calls = Len(Script)
    /\ PersistedCount = 0
    /\ starts = 1
    /\ stops = 1
    /\ next_pid = 2
    /\ alive = {}

(***************************************************************************)
(* C17: five processes call acquire in any interleaving; as long as the    *)
(* first start succeeds and the server stays up, start_opencode_server is  *)
(* called at most once.                                                    *)
(***************************************************************************)
C17_OneStartForConcurrentAcquires ==
    (start_failures = 0 /\ faults = 0) => starts <= 1

\* one process polls the backend it spawned while the four others wait for
\* the lock
C17_Witness ==
    /\ starts = 1
    /\ faults = 0
    /\ \E s \in Acquirers :
           /\ proc[s].pc = "start_poll"
           /\ \A t \in Acquirers \ {s} : proc[t].pc = "acquire_flock"

(***************************************************************************)
(* C18: when every start succeeded, no server went away on its own and no  *)
(* session released more often than it acquired, then whenever the lock is *)
(* free the persisted count is the number of successful acquires minus the *)
(* number of releases, start was called once per save that took the count  *)
(* from 0 to 1 and stop once per save that took it from 1 to 0.            *)
(***************************************************************************)
NoOverRelease == over_releases = 0

C18_NoLostUpdates ==
    (start_failures = 0 /\ faults = 0 /\ NoOverRelease
        /\ lock_holder = NOBODY) =>
        /\ PersistedCount = acquired - released
        /\ starts = ups
        /\ stops = downs

\* both sessions hold the server after acquires that overlapped: B waited
\* for the lock while A started the backend
C18_Witness ==
    /\ start_failures = 0
    /\ faults = 0
    /\ NoOverRelease
    /\ lock_holder = NOBODY
    /\ acquired = 3
    /\ released = 1
    /\ PersistedCount = 2
    /\ starts = 2
    /\ stops = 1

(***************************************************************************)
(* C19: while a release is stopping the backend, no session that acquired  *)
(* successfully and has not released remains.                              *)
(***************************************************************************)
C19_NoStopWhileReferenced ==
    \A s \in DOMAIN proc :
        proc[s].pc = "stop_poll" => \A t \in DOMAIN holders : holders[t] = 0

(***************************************************************************)
(* C20: at most one backend spawned by the lifecycle manager is alive, and *)
(* a backend is spawned only when the port is not reachable and the        *)
(* process recorded in the ref-count file, if any, is not running.         *)
(***************************************************************************)
C20_NoDoubleStart ==
    /\ [](Cardinality(alive) <= 1)
    /\ [][next_pid' # next_pid =>
             /\ ~is_server_available(listener)
             /\ ~is_server_running(load_refs(refs_file).pid, alive, listener)
             /\ alive = {}]_vars

\* the first backend died, the stale record was reset and a second backend
\* was spawned
C20_Witness ==
    /\ next_pid = 3
    /\ alive = {2}
    /\ faults = 1
    /\ refs_file # None
    /\ refs_file[1].pid = Some(2)

(***************************************************************************)
(* C21: an acquire that finds a recorded pid that is not running calls     *)
(* start_opencode_server instead of counting on the recorded server: it    *)
(* goes on from the record {0, None}, and when the start succeeds the      *)
(* record saved has count 1 and the new owner (the spawned pid, or the     *)
(* sentinel when the port was already reachable).                          *)
(***************************************************************************)
StaleRecord ==
    /\ load_refs(refs_file).pid # None
    /\ ~is_server_running(load_refs(refs_file).pid, alive, listener)

C21_CrashSelfHealing ==
    [][\A s \in DOMAIN proc :
          /\ (/\ proc[s].pc = "acquire_locked"
               /\ proc'[s].pc # "acquire_locked"
               /\ StaleRecord) =>
                  /\ starts' = starts + 1
                  /\ proc'[s].pc \in {"start_poll", "idle"}
                  /\ proc'[s].pc = "start_poll" =>
                         /\ proc'[s].refs = ZeroRefs
                         /\ proc'[s].child \notin alive
                         /\ proc'[s].child \in alive'
                  /\ proc'[s].pc = "idle" =>
                         /\ acquired' = acquired + 1
                         /\ refs_file' = Some([count |-> 1,
                                               pid |-> Some(EXTERNAL)])
          /\ (proc[s].pc = "start_poll" /\ acquired' = acquired + 1) =>
                 refs_file' = Some([count |-> 1,
                                    pid |-> Some(proc[s].child)])]_vars

\* two sessions held the first backend, it died, and the third acquire
\* started a second backend and saved a count of 1
C21_Witness ==
    /\ faults = 1
    /\ acquired = 3
    /\ released = 0
    /\ starts = 2
    /\ alive = {2}
    /\ refs_file = Some([count |-> 1, pid |-> Some(2)])
    /\ lock_holder = NOBODY

(***************************************************************************)
(* C22: a call of opencode_acquire that returns False (no binary, or the   *)
(* start failed) leaves the ref-count file as it was, counts no reference  *)
(* and leaves the lock free.                                               *)
(***************************************************************************)
C22_FailedAcquireChangesNothing ==
    [][acquire_failures' # acquire_failures =>
          /\ refs_file' = refs_file
          /\ acquired' = acquired
          /\ holders' = holders
          /\ lock_holder' = NOBODY]_vars

\* an acquire found the record of a dead backend, its own start failed, and
\* the stale record is still the one on disk
C22_Witness ==
    /\ acquire_failures = 1
    /\ start_failures = 1
    /\ faults = 1
    /\ refs_file = Some([count |-> 1, pid |-> Some(1)])
    /\ alive = {}
    /\ lock_holder = NOBODY

(***************************************************************************)
(* C23: a release that returns after it found no ref-count file has        *)
(* created no ref-count file and has called no stop.                       *)
(***************************************************************************)
C23_ReleaseWithoutRecord ==
    [][(released' = released + 1 /\ refs_file = None) =>
          /\ refs_file' = None
          /\ stops' = stops]_vars

(***************************************************************************)
(* C24: when start_opencode_server is called while the port is reachable,  *)
(* nothing is spawned and the sentinel -1 is recorded; a release that      *)
(* loads the sentinel owner returns without a signal to any process, also  *)
(* when it takes the count to 0; and the two loops from which signals are  *)
(* sent (the cleanup of a start, the polling of a stop) never run on a     *)
(* record owned by the sentinel.                                           *)
(***************************************************************************)
SentinelOwner == load_refs(refs_file).pid = Some(EXTERNAL)

C24_ExternalNeverManaged ==
    /\ [](\A s \in DOMAIN proc :
             proc[s].pc \in {"start_poll", "stop_poll"} =>
                 /\ proc[s].refs.pid # Some(EXTERNAL)
                 /\ proc[s].child # EXTERNAL)
    /\ [](EXTERNAL \notin alive \cup terminating)
    /\ [][\A s \in DOMAIN proc :
             /\ (/\ proc[s].pc = "acquire_locked"
                  /\ starts' = starts + 1
                  /\ listener # 0) =>
                     /\ next_pid' = next_pid
                     /\ alive' = alive
                     /\ terminating' = terminating
                     /\ refs_file' = Some([count |-> 1,
                                           pid |-> Some(EXTERNAL)])
             /\ (/\ proc[s].pc = "release_locked"
                  /\ proc'[s].pc # "release_locked"
                  /\ SentinelOwner) =>
                     /\ proc'[s].pc = "idle"
                     /\ alive' = alive
                     /\ terminating' = terminating
                     /\ listener' = listener
                     /\ refs_file' = Some(Decremented(
                            [load_refs(refs_file) EXCEPT !.pid =
                                IF load_refs(refs_file).count <= 1
                                THEN None ELSE @]))]_vars

\* the only holder of a server that was not spawned here has released it:
\* the count is back at 0 and that server still listens
C24_Witness ==
    /\ listener = EXTERNAL
    /\ acquired = 1
    /\ released = 1
    /\ stops = 1
    /\ faults = 0
    /\ next_pid = 1
    /\ refs_file = Some(ZeroRefs)
    /\ over_releases = 0

(***************************************************************************)
(* C25: a start whose spawned backend is not reachable in any of the 30    *)
(* readiness polls returns failure and leaves that backend neither running *)
(* nor listening; and whenever the lock is free, every running backend     *)
(* that was spawned here is the owner recorded in the ref-count file.      *)
(***************************************************************************)
C25_FailedStartLeavesNoProcess ==
    /\ [](lock_holder = NOBODY =>
             \A pid \in alive : load_refs(refs_file).pid = Some(pid))
    /\ [][\A s \in DOMAIN proc :
             (proc[s].pc = "start_poll" /\ start_failures' # start_failures)
                 => /\ proc[s].polls + 1 = READINESS_POLLS
                    /\ listener = 0
                    /\ proc[s].child \notin alive'
                    /\ proc[s].child \notin terminating'
                    /\ listener' # proc[s].child
                    /\ acquire_failures' = acquire_failures + 1
                    /\ proc'[s].pc = "idle"]_vars

\* the only start so far ran out of polls: nothing runs, no record exists
C25_Witness ==
    /\ start_failures = 1
    /\ starts = 1
    /\ faults = 0
    /\ next_pid = 2
    /\ alive = {}
    /\ listener = 0
    /\ refs_file = None
    /\ Quiet

C27_LastReleaseStops ==
    (acquired > released) ~>
        (/\ acquired = released
         /\ Quiet
         /\ refs_file = Some(ZeroRefs)
         /\ alive = {}
         /\ terminating = {})

\* two sessions shared one spawned backend; the second release stopped it
C27_Witness ==
    /\ acquired = 2
    /\ released = 2
    /\ starts = 1
    /\ stops = 1
    /\ next_pid = 2
    /\ alive = {}
    /\ refs_file = Some(ZeroRefs)
    /\ Quiet

(***************************************************************************)
(* C28: an invocation that resolved without a block prints nothing when no *)
(* message was collected, and otherwise exactly one system message whose   *)
(* parts are the override notices in rule order, then the messages of the  *)
(* NOTIFY rules with verdict YES in rule order, then those of the SUGGEST  *)
(* rules with verdict YES in rule order.                                   *)
(***************************************************************************)
NotifyYes ==
    {i \in DOMAIN results :
        rules[i].action = "notify" /\ results[i].verdict = "YES"}

SuggestYes ==
    {i \in DOMAIN results :
        rules[i].action = "suggest" /\ results[i].verdict = "YES"}

\* a part without the number of the override
Shown(part) == [tag |-> part.tag, criteria |-> part.criteria,
                text |-> part.text]

PartsOf(S, tag) ==
    [k \in 1..Cardinality(S) |->
        LET i == Ascending(S)[k] IN
        [tag |-> tag, criteria |-> rules[i].criteria,
         text |-> IF tag = "override"
                  THEN results[i].override_reason[1]
                  ELSE results[i].explanation]]

CollectedParts ==
    PartsOf(OverrideBlocks, "override") \o PartsOf(NotifyYes, "notify")
        \o PartsOf(SuggestYes, "suggest")

C28_CombinedAdvisory ==
    pc = "end" =>
        /\ Printed("block") = {}
        /\ IF CollectedParts = << >>
           THEN stdout = << >>
           ELSE /\ Len(stdout) = 1
                /\ stdout[1].kind = "systemMessage"
                /\ [k \in 1..Len(stdout[1].parts) |->
                       Shown(stdout[1].parts[k])] = CollectedParts

\* the suggest rule comes first in the configuration and second in the
\* message
C28_Witness ==
    /\ pc = "end"
    /\ SuggestYes = {1}
    /\ NotifyYes = {2}
    /\ Len(stdout) = 1
    /\ stdout[1].parts[1].tag = "notify"
    /\ stdout[1].parts[2].tag = "suggest"

(***************************************************************************)
(* C29: while a submitted query is outstanding, nothing has been printed,  *)
(* no message has been collected and both session counters have the values *)
(* the invocation started with, also when a block verdict is already in.   *)
(***************************************************************************)
C29_ResolutionWaits ==
    pending # {} =>
        /\ pc = "collecting"
        /\ stdout = << >>
        /\ system_messages = << >>
        /\ steps = << >>
        /\ block_count = start_blocks
        /\ override_count = start_overrides

\* the first rule's block verdict is in and the second query is outstanding
C29_Witness ==
    /\ pending = {2}
    /\ 1 \in DOMAIN results
    /\ PlainBlock(1)
    /\ stdout = << >>
    /\ block_count = start_blocks

(***************************************************************************)
(* C30: a rule whose verdict is not YES is named by no output event, no    *)
(* message and no step of the block loop, whatever its action and its      *)
(* override_reason, and the output and the counters of the resolution are  *)
(* the ones the hook produces from the results with verdict YES alone.     *)
(***************************************************************************)
NotYes == {i \in DOMAIN results : results[i].verdict # "YES"}

YesKeys == Ascending(DOMAIN results \ NotYes)

RulesWithYes == [k \in 1..Len(YesKeys) |-> rules[YesKeys[k]]]

ResultsWithYes == [k \in 1..Len(YesKeys) |-> results[YesKeys[k]]]

C30_OnlyYesActs ==
    /\ \A i \in NotYes :
           /\ \A k \in 1..Len(stdout) : ~NamesRule(stdout[k], i)
           /\ \A k \in 1..Len(system_messages) :
                  system_messages[k].criteria # rules[i].criteria
           /\ StepsOf(i) = {}
    /\ (Resolved /\ NotYes = DOMAIN results) =>
           /\ stdout = << >>
           /\ block_count = start_blocks
           /\ override_count = start_overrides
    /\ Resolved =>
           LET st == ResolveResults(RulesWithYes, ResultsWithYes,
                                    [k \in 1..Len(YesKeys) |-> k],
                                    StartState)
           IN  /\ st.stdout = stdout
               /\ st.system_messages = system_messages
               /\ st.block_count = block_count
               /\ st.override_count = override_count

\* a block rule answered NO and a notify rule answered neither YES nor NO,
\* both with an override_reason, and nothing happened
C30_Witness ==
    /\ pc = "end"
    /\ Len(rules) = 2
    /\ rules[1].action = "block"
    /\ rules[2].action = "notify"
    /\ DOMAIN results = {1, 2}
    /\ results[1].verdict = "NO"
    /\ results[2].verdict = ""
    /\ Truthy(results[1].override_reason)
    /\ Truthy(results[2].override_reason)
    /\ stdout = << >>

(***************************************************************************)
(* C31: over the evaluations of one session, run one after the other from  *)
(* override_count = 0, override_count never exceeds 5, also when several   *)
(* BLOCK rules of one evaluation carry an override: every iteration reads  *)
(* the counter again, and the one that finds it at 5 blocks.               *)
(***************************************************************************)
C31_OverrideCeiling ==
    /\ override_count <= MAX_OVERRIDES_PER_SESSION
    /\ \A k \in 1..Len(steps) :
           /\ steps[k].overrides_after <= MAX_OVERRIDES_PER_SESSION
           /\ (k > 1 => steps[k].overrides_before
                            = steps[k - 1].overrides_after)
           /\ (/\ OverrideBlock(steps[k].idx)
               /\ steps[k].overrides_before = MAX_OVERRIDES_PER_SESSION)
                  => /\ steps[k].branch = "limit_block"
                     /\ steps[k].overrides_after = steps[k].overrides_before

\* two overrides in one evaluation: the first takes the counter to 5, the
\* second is refused
C31_Witness ==
    /\ pc = "blocked"
    /\ Cardinality(OverrideBlocks) >= 2
    /\ override_count = MAX_OVERRIDES_PER_SESSION
    /\ \E k \in 1..Len(steps) :
           /\ k > 1
           /\ steps[k - 1].branch = "override"
           /\ steps[k - 1].overrides_after = MAX_OVERRIDES_PER_SESSION
           /\ steps[k].branch = "limit_block"

(***************************************************************************)
(* C37: within an evaluation block_count is one more than at its start     *)
(* exactly when a block decision was printed, and the same otherwise;      *)
(* override_count has grown by one for every override granted in it; a     *)
(* step never lowers a counter and raises it by at most one; and an        *)
(* evaluation whose only rules with verdict YES are NOTIFY or SUGGEST      *)
(* rules leaves both counters as it found them.                            *)
(***************************************************************************)
GrantedSteps == {k \in 1..Len(steps) : steps[k].branch = "override"}

C37_CountersFollowDecisions ==
    /\ [](pc # "idle" =>
            /\ Cardinality(Printed("block")) \in {0, 1}
            /\ block_count = start_blocks + Cardinality(Printed("block"))
            /\ override_count = start_overrides + Cardinality(GrantedSteps)
            /\ \A k \in GrantedSteps :
                   /\ steps[k].overrides_after = steps[k].overrides_before + 1
                   /\ steps[k].blocks_after = steps[k].blocks_before
            /\ (\A i \in DOMAIN results : ~BlockYes(i))
                   => /\ block_count = start_blocks
                      /\ override_count = start_overrides)
    /\ [][/\ block_count' \in {block_count, block_count + 1}
          /\ override_count' >= override_count
          /\ (block_count' = block_count + 1)
                 <=> (BlockEvents(stdout') = BlockEvents(stdout) + 1)]_vars

\* a later evaluation of the session that granted an override, printed a
\* block decision and so raised each counter by one
C37_Witness ==
    /\ pc = "blocked"
    /\ start_blocks > 0
    /\ start_overrides > 0
    /\ block_count = start_blocks + 1
    /\ override_count = start_overrides + 1
    /\ Cardinality(GrantedSteps) = 1
    /\ Cardinality(Printed("block")) = 1

(***************************************************************************)
(* C38: when the BLOCK rules of lower index than the first BLOCK rule      *)
(* with verdict YES and no override all carry an override that is          *)
(* accepted, the only output is the block decision of that rule,           *)
(* block_count has grown by 1, override_count by the number of overrides   *)
(* accepted (1 for one rule of lower index), and the override notices      *)
(* collected are not printed.                                              *)
(***************************************************************************)
LowerOverrides == {i \in OverrideBlocks : i < Min(HardBlocks)}

C38_BlockAfterAcceptedOverride ==
    (/\ pc \in ExitPoints
     /\ PlainBlocks # {}
     /\ Min(HardBlocks) \in PlainBlocks
     /\ LowerOverrides # {})
        => /\ stdout = << BlockEvent(rules[Min(HardBlocks)],
                                     results[Min(HardBlocks)].explanation) >>
           /\ block_count = start_blocks + 1
           /\ override_count = start_overrides + Cardinality(LowerOverrides)
           /\ override_count <= MAX_OVERRIDES_PER_SESSION
           /\ Printed("systemMessage") = {}
           /\ Len(system_messages) = Cardinality(LowerOverrides)
           /\ \A m \in 1..Len(system_messages) :
                  system_messages[m].tag = "override"

\* rule 1 was granted an override, rule 2 blocked without one
C38_Witness ==
    /\ pc = "blocked"
    /\ OverrideBlock(1)
    /\ PlainBlock(2)
    /\ start_overrides < MAX_OVERRIDES_PER_SESSION
    /\ override_count = start_overrides + 1
    /\ block_count = start_blocks + 1
    /\ stdout[1].criteria = rules[2].criteria
    /\ Len(system_messages) = 1

(***************************************************************************)
(* C39: a BLOCK rule with verdict YES whose response holds the OVERRIDE:   *)
(* marker with nothing behind it has the empty text as override_reason     *)
(* and is handled as a rule without override: its iteration prints the     *)
(* block decision, raises block_count by 1 and leaves override_count       *)
(* alone, whatever override_count is.                                      *)
(***************************************************************************)
EmptyOverride(i) ==
    /\ BlockYes(i)
    /\ results[i].override_reason = Some(<< >>)

C39_EmptyOverrideBlocks ==
    /\ parse_response(TxtEmptyOverride).verdict = "YES"
    /\ parse_response(TxtEmptyOverride).override_reason = Some(<< >>)
    /\ \A k \in 1..Len(steps) :
           EmptyOverride(steps[k].idx)
               => /\ steps[k].branch = "block"
                  /\ steps[k].events
                         = << BlockEvent(rules[steps[k].idx],
                                         results[steps[k].idx].explanation) >>
                  /\ steps[k].blocks_after = steps[k].blocks_before + 1
                  /\ steps[k].overrides_after = steps[k].overrides_before
                  /\ steps[k].messages = << >>
                  /\ k = Len(steps)
                  /\ pc = "blocked"
    /\ pc = "end" => \A i \in DOMAIN results : ~EmptyOverride(i)

\* the marker with nothing behind it blocked while overrides were left
C39_Witness ==
    /\ pc = "blocked"
    /\ \E k \in 1..Len(steps) :
           /\ EmptyOverride(steps[k].idx)
           /\ steps[k].branch = "block"
           /\ steps[k].overrides_before < MAX_OVERRIDES_PER_SESSION
           /\ steps[k].overrides_before > 0

(***************************************************************************)
(* C32: whatever acquire and release calls are made, also releases that    *)
(* no acquire matches, the persisted count and the count a call works on   *)
(* are never negative; and a release that returns having found the count   *)
(* at 0 has called no stop and leaves the record at {0, None}.             *)
(***************************************************************************)
C32_ReleaseFloor ==
    /\ [](/\ load_refs(refs_file).count >= 0
          /\ \A s \in DOMAIN proc : proc[s].refs.count >= 0)
    /\ [][(/\ released' = released + 1
           /\ load_refs(refs_file).count = 0)
              => /\ stops' = stops
                 /\ load_refs(refs_file') = ZeroRefs
                 /\ (lock_file => refs_file' = Some(ZeroRefs))]_vars

\* a session that holds nothing has released under the lock with the count
\* at 0
C32_Witness ==
    /\ over_releases > 0
    /\ released > 0
    /\ refs_file = Some(ZeroRefs)
    /\ stops = 0
    /\ acquired = 0
    /\ \A s \in DOMAIN proc : proc[s].pc = "idle"

(***************************************************************************)
(* C33: at most one process is between the flock and the unlock of         *)
(* acquire or release, and it is the lock holder; every step that loads    *)
(* the record, writes it, starts a backend, calls stop or signals a        *)
(* backend is a step of the lock holder; and the record is written only    *)
(* by the step that ends the holder's call, so no other process reads it   *)
(* between that call's load and its save.                                  *)
(***************************************************************************)
UnderLock(s) ==
    proc[s].pc \in {"acquire_locked", "start_poll", "release_locked",
                    "stop_poll"}

C33_MutualExclusion ==
    /\ [](/\ \A s \in DOMAIN proc : UnderLock(s) <=> lock_holder = s
          /\ Cardinality({s \in DOMAIN proc : UnderLock(s)}) <= 1)
    /\ [][/\ (\/ refs_file' # refs_file
              \/ starts' # starts
              \/ stops' # stops
              \/ kills' # kills
              \/ next_pid' # next_pid
              \/ terminating' \ terminating # {})
                 => \E s \in DOMAIN proc :
                        /\ UnderLock(s)
                        /\ lock_holder = s
                        /\ proc'[s] # proc[s]
                        /\ \A t \in DOMAIN proc \ {s} : proc'[t] = proc[t]
          /\ \A s \in DOMAIN proc :
                 proc'[s].refs # proc[s].refs => lock_holder = s
          /\ refs_file' # refs_file => lock_holder' = NOBODY]_vars

\* a call polls its backend under the lock while the call of the other
\* session waits for the lock
C33_Witness ==
    /\ proc["A"].pc \in {"start_poll", "stop_poll"}
    /\ lock_holder = "A"
    /\ proc["B"].pc \in {"acquire_flock", "release_flock"}
    /\ proc["A"].polls > 0

(***************************************************************************)
(* C35: stop_opencode_server sends SIGTERM before it polls; it sends       *)
(* SIGKILL only when the tenth poll in a row has found the backend         *)
(* running, and none when a poll finds it gone; and when the recorded      *)
(* backend is already gone as SIGTERM is sent the error is swallowed, the  *)
(* release saves {0, None} and returns.                                    *)
(***************************************************************************)
C35_GracefulThenForced ==
    /\ [](\A s \in DOMAIN proc :
              proc[s].pc = "stop_poll"
                  => /\ proc[s].polls < LIVENESS_POLLS
                     /\ proc[s].child \in alive
                            => proc[s].child \in terminating)
    /\ [][/\ kills' \in {kills, kills + 1}
          /\ kills' # kills
                 => \E s \in DOMAIN proc :
                        /\ proc[s].pc = "stop_poll"
                        /\ proc[s].polls + 1 = LIVENESS_POLLS
                        /\ proc[s].child \in alive \cap terminating
                        /\ proc[s].child \notin alive'
                        /\ proc'[s].pc = "idle"
          /\ \A s \in DOMAIN proc :
                 (/\ proc[s].pc = "stop_poll"
                  /\ proc[s].child \notin alive
                  /\ proc'[s] # proc[s])
                     => /\ kills' = kills
                        /\ proc'[s].pc = "idle"
                        /\ released' = released + 1
          /\ \A s \in DOMAIN proc :
                 (/\ proc[s].pc = "release_locked"
                  /\ stops' = stops + 1
                  /\ load_refs(refs_file).pid # Some(EXTERNAL)
                  /\ load_refs(refs_file).pid[1] \notin alive)
                     => /\ proc'[s].pc = "idle"
                        /\ released' = released + 1
                        /\ refs_file' = Some(ZeroRefs)
                        /\ kills' = kills
                        /\ exit_codes' = exit_codes \cup {0}]_vars

\* the backend ignored SIGTERM through ten polls and was killed
C35_Witness ==
    /\ kills = 1
    /\ stops = 1
    /\ alive = {}
    /\ refs_file = Some(ZeroRefs)
    /\ \A s \in DOMAIN proc : proc[s].pc = "idle"

(***************************************************************************)
(* C36: a record file whose content is not the record is never fatal and   *)
(* is taken as {0, None}: every call ends with status 0, an acquire that   *)
(* finds such a file calls start_opencode_server as a first acquire does   *)
(* and saves a count of 1, and a release that finds one saves {0, None}    *)
(* and calls no stop.                                                      *)
(***************************************************************************)
DamagedRecord ==
    refs_file # None /\ refs_file[1] \in {NOT_JSON, OTHER_JSON}

C36_DamagedRecordIsZero ==
    /\ [](exit_codes \subseteq {0})
    /\ [][\A s \in DOMAIN proc :
              /\ (/\ DamagedRecord
                  /\ proc[s].pc = "acquire_locked"
                  /\ proc'[s] # proc[s])
                     => /\ starts' = starts + 1
                        /\ \/ proc'[s].pc = "start_poll"
                           \/ refs_file'
                                  = Some([count |-> 1,
                                          pid |-> Some(EXTERNAL)])
              /\ (/\ DamagedRecord
                  /\ proc[s].pc = "release_locked"
                  /\ proc'[s] # proc[s])
                     => /\ stops' = stops
                        /\ released' = released + 1
                        /\ refs_file' = Some(ZeroRefs)]_vars

(***************************************************************************)
(* C34: every acquire or release call that has begun returns, and a call   *)
(* that has returned does not hold the lock, whether it succeeded, its     *)
(* start failed or an exception ended it; a call that waits for the lock   *)
(* gets it; and start polls for readiness at most 30 times, stop for       *)
(* liveness at most 10 times.                                              *)
(***************************************************************************)
C34_CallsReturnUnlocked ==
    /\ [](\A s \in DOMAIN proc :
              /\ proc[s].pc = "idle" => lock_holder # s
              /\ lock_holder = s => UnderLock(s)
              /\ proc[s].pc = "start_poll" => proc[s].polls < READINESS_POLLS
              /\ proc[s].pc = "stop_poll" => proc[s].polls < LIVENESS_POLLS)
    /\ \A s \in Sessions :
           /\ (proc[s].pc # "idle") ~> (proc[s].pc = "idle")
           /\ (proc[s].pc \in {"acquire_flock", "release_flock"})
                  ~> (lock_holder = s)

\* a call ended by an exception, another one by a failed start, and a later
\* call holds the lock
C34_Witness ==
    /\ 1 \in exit_codes
    /\ start_failures > 0
    /\ lock_holder # NOBODY

(***************************************************************************)
(* C40: the counters are right as long as the evaluations of the session   *)
(* run one at a time: then block_count is the number of block decisions    *)
(* printed, override_count the number of overrides granted, and that is    *)
(* at most 5.  When evaluations overlap a counter can only fall behind:    *)
(* two evaluations that read the same block_count n both write n + 1, and  *)
(* more than 5 overrides can be granted (the witness).                     *)
(***************************************************************************)
C40_CountersNeedSerialization ==
    /\ block_count <= blocks_emitted
    /\ override_count <= overrides_granted
    /\ ~overlapped
           => /\ block_count = blocks_emitted
              /\ override_count = overrides_granted
              /\ overrides_granted <= MAX_OVERRIDES_PER_SESSION

\* overlapping evaluations: a block decision is missing from block_count
\* and a sixth override was granted
C40_Witness ==
    /\ overlapped
    /\ block_count < blocks_emitted
    /\ overrides_granted > MAX_OVERRIDES_PER_SESSION
    /\ \A e \in Evaluations : evals[e].pc = "idle"

====
